---- MODULE Spec2Model ----
(***************************************************************************)
(* Backend half of the portal request/response protocol (ashpd backend).   *)
(*                                                                         *)
(* Interface adapters (AccountInterface, WallpaperInterface,               *)
(* SettingsInterface, FileChooserInterface) turn a remote call into an     *)
(* Action carrying a oneshot completion slot and push it on the            *)
(* interface's mpsc channel.  The dispatch side (Account::next,            *)
(* Wallpaper::next, Settings::next, FileChooser::next + activate) pulls    *)
(* one Action, registers a Request at the call's handle path when the      *)
(* operation is cancellable, runs the business operation, fills the slot   *)
(* and lets the Request answer one queued Close.  RequestInterface::close  *)
(* is the remote Close call on a registered Request path.                  *)
(***************************************************************************)
EXTENDS Integers, Sequences, FiniteSets, TLC

\* ---------------------------------------------------------------- bounds
MaxCalls == 2
MaxCloses == 2
MaxHandles == 2
\* distinct interfaces that take part in one run
MaxIfacesInUse == 1
\* host threads that poll the dispatchers at the same time
MaxPollers == 2

Calls == 1..MaxCalls
Closes == 1..MaxCloses
Handles == 1..MaxHandles
Pollers == 1..MaxPollers

\* ------------------------------------------------------- program constants
\* futures_channel::mpsc::channel(10): the buffer of every channel
ChanBuffer == 10
\* every channel here has a single Sender; each Sender owns one extra slot
NumSenders == 1
Capacity == ChanBuffer + NumSenders

Ifaces == {"Account", "FileChooser", "Settings", "Wallpaper"}
\* adapters whose methods take &mut self and enqueue with try_send
TrySendIfaces == {"Account", "Settings", "Wallpaper"}
\* interfaces whose dispatch creates a Request
Cancellable == {"Account", "FileChooser", "Wallpaper"}
\* dispatchers whose next() polls, registers, runs and answers in one call
NextIfaces == {"Account", "Wallpaper"}

\* Response<T>: Ok(T), Cancelled, Other
ResponseKinds == {"Ok", "Cancelled", "Other"}
\* what a business operation of interface i may return
Outcomes(i) == IF i = "Settings" THEN {"Value"} ELSE ResponseKinds

\* a oneshot slot: never written, written with a value, or its Sender dropped
Empty == [kind |-> "empty", token |-> 0]
Dropped == [kind |-> "dropped", token |-> 0]
Filled(kind, token) == [kind |-> kind, token |-> token]
IsFilled(s) == s.kind \notin {"empty", "dropped"}

VARIABLES
    cpc,        \* adapter call c: "idle", "sending", "await", "returned", "panicked"
    cIface,     \* interface the call went to ("none" before it arrives)
    cHandle,    \* handle path argument of the call (0 before it arrives)
    reply,      \* what the adapter handed back to the transport layer
    slot,       \* the call's oneshot completion slot
    fills,      \* number of times the slot was written
    sent,       \* what the adapter's enqueue returned: "none", "ok", "err"
    ifaceLock,  \* &mut self of a TrySend adapter: the call inside it, or 0
    senderLock, \* FileChooserInterface.sender mutex: the call holding it, or 0
    chan,       \* per interface: the Action Channel (sequence of calls)
    rxAlive,    \* per interface: the Receiver (the dispatcher) still exists
    dpc,        \* dispatch of call c's Action: "none", "taken", "running",
                \* "closing", "returned", "failed"
    result,     \* what the business operation returned for call c's Action
    objects,    \* object server: handle path -> Request (call id) or 0
    reqRx,      \* Request c still holds the Receiver of its Close channel
    reqChan,    \* Request c's Close channel (sequence of Close calls)
    reqLock,    \* &mut self of Request c's RequestInterface: Close inside, or 0
    picked,     \* the Close that Request::next took from the channel, or 0
    regs,       \* times Request c's path was registered for it
    deregs,     \* times Request c's registration was removed
    closeRuns,  \* times business close() was started for Request c
    closeEnds,  \* times business close() finished for Request c
    kpc,        \* Close call k: "idle", "lockwait", "await", "replied",
                \* "notfound", "panicked"
    kHandle,    \* path the Close call was sent to
    kTarget,    \* Request whose RequestInterface the path resolved to, or 0
    kslot,      \* the Close call's oneshot: "empty", "sent", "dropped"
    kReplies,   \* replies the Close call's caller has received
    kInFlight,  \* the Close was queued while the primary operation was running
    hostMode,   \* how the host drives a dispatcher: "loop" awaits each dispatch
                \* before it polls again, "spawn" lets dispatches overlap
    fcWait,     \* a FileChooser::next() is suspended on the empty channel
    fcBacklog,  \* Actions of earlier OpenFile / SaveFile calls that sit in the
                \* FileChooser channel ahead of the calls followed here
    bpc,        \* Backend::new: "Uninitialized", "Constructed", "Failed", "Panicked"
    bErr,       \* the construction step that failed last, or "none"
    busName,    \* owner of the well-known name: "free", "other" (replaceable),
                \* "pinned" (other, no replacement), "backend"
    ifaceRegs,  \* interface adapters registered at IMPL_PATH
    holders,    \* who holds a live Backend value: "host", "Account" (its copy)
    releases,   \* release tasks started for the well-known name
    dropLogs,   \* teardown failures that were logged
    dropPanics, \* Backend drops that panicked
    gs,         \* the desktop's settings store: key -> string value
    log,        \* business operations on the store so far, with what they returned
    dlg,        \* the last file chooser dialog: its inputs and its Response
    wire,       \* a FileName on the wire: its bytes and what deserializing gave
    ppc,        \* per polling thread: where it is in next(), on which interface,
                \* and the Action it took
    rxFlag      \* per interface: the borrow flag of the RefCell, or the state of
                \* the Mutex, that guards the channel's Receiver (0 free, 1 taken)

callVars == <<cpc, cIface, cHandle, reply, slot, fills, sent>>
lockVars == <<ifaceLock, senderLock>>
chanVars == <<chan, rxAlive>>
dispVars == <<dpc, result>>
reqVars == <<objects, reqRx, reqChan, reqLock, picked, regs, deregs, closeRuns, closeEnds>>
closeVars == <<kpc, kHandle, kTarget, kslot, kReplies, kInFlight>>
hostVars == <<hostMode, fcWait>>
backVars == <<bpc, bErr, busName, ifaceRegs, holders, releases, dropLogs, dropPanics>>
logicVars == <<gs, log, dlg, wire>>
pollVars == <<ppc, rxFlag>>
loadVars == <<fcBacklog>>
vars == <<callVars, lockVars, chanVars, dispVars, reqVars, closeVars, hostVars, backVars,
          logicVars, pollVars, loadVars>>

\* a thread that is not inside a next()
IdlePoller == [at |-> "idle", iface |-> "none", act |-> 0]

\* the adapters and dispatchers with no call followed yet
DispatchIdle ==
    /\ cpc = [c \in Calls |-> "idle"]
    /\ cIface = [c \in Calls |-> "none"]
    /\ cHandle = [c \in Calls |-> 0]
    /\ reply = [c \in Calls |-> Empty]
    /\ slot = [c \in Calls |-> Empty]
    /\ fills = [c \in Calls |-> 0]
    /\ sent = [c \in Calls |-> "none"]
    /\ ifaceLock = [i \in Ifaces |-> 0]
    /\ senderLock = 0
    /\ chan = [i \in Ifaces |-> <<>>]
    /\ rxAlive = [i \in Ifaces |-> TRUE]
    /\ dpc = [c \in Calls |-> "none"]
    /\ result = [c \in Calls |-> Empty]
    /\ objects = [h \in Handles |-> 0]
    /\ reqRx = [c \in Calls |-> FALSE]
    /\ reqChan = [c \in Calls |-> <<>>]
    /\ reqLock = [c \in Calls |-> 0]
    /\ picked = [c \in Calls |-> 0]
    /\ regs = [c \in Calls |-> 0]
    /\ deregs = [c \in Calls |-> 0]
    /\ closeRuns = [c \in Calls |-> 0]
    /\ closeEnds = [c \in Calls |-> 0]
    /\ kpc = [k \in Closes |-> "idle"]
    /\ kHandle = [k \in Closes |-> 0]
    /\ kTarget = [k \in Closes |-> 0]
    /\ kslot = [k \in Closes |-> "empty"]
    /\ kReplies = [k \in Closes |-> 0]
    /\ kInFlight = [k \in Closes |-> FALSE]
    /\ fcWait = FALSE
    /\ ppc = [p \in Pollers |-> IdlePoller]
    /\ rxFlag = [i \in Ifaces |-> 0]

\* the adapters and dispatchers right after their new()
DispatchInit ==
    /\ DispatchIdle
    /\ fcBacklog = 0

\* the keys set_gsetting writes
StoreKeys == {"picture-uri", "picture-uri-dark"}
\* what the store holds before the backend writes to it
DefaultUri == "file:///default.png"
\* no dialog was run yet
NoDialog ==
    [stage |-> "none", wid |-> "none", display |-> "none", multiple |-> "unset",
     directory |-> "unset", choices |-> "none", external |-> "None",
     fakeDisplay |-> "none", parent |-> "none", action |-> "none",
     acceptLabel |-> "none", readOnly |-> "false", selection |-> {},
     resp |-> [kind |-> "none", uris |-> [some |-> FALSE, list |-> {}],
               writable |-> [some |-> FALSE, val |-> FALSE]],
     op |-> "none", files |-> [some |-> FALSE, list |-> <<>>], folder |-> "none",
     dir |-> {}, idx |-> 0, file |-> <<>>, unique_id |-> 0, uris |-> <<>>,
     result |-> "none"]

\* no byte array has arrived
NoWire == [stage |-> "none", bytes |-> <<>>, ok |-> FALSE, name |-> <<>>, err |-> "none"]

\* the business logic has not been called yet
DemoIdle ==
    /\ gs = [k \in StoreKeys |-> DefaultUri]
    /\ log = <<>>
    /\ dlg = NoDialog

LogicIdle ==
    /\ DemoIdle
    /\ wire = NoWire

\* the ways a host may drive next() / activate()
HostModes == {"loop", "spawn"}

\* a Backend that was constructed and whose interfaces were all registered
BackendRunning ==
    /\ bpc = "Constructed"
    /\ bErr = "none"
    /\ busName = "backend"
    /\ ifaceRegs = Ifaces
    /\ holders = {"host"}
    /\ releases = 0
    /\ dropLogs = 0
    /\ dropPanics = 0

Init ==
    /\ DispatchInit
    /\ hostMode \in HostModes
    /\ BackendRunning
    /\ LogicIdle

\* ------------------------------------------------------------- adapters
\* mpsc try_send / send accept a message while the Receiver exists and the
\* channel holds fewer than buffer + senders messages
Pending(i) == Len(chan[i]) + (IF i = "FileChooser" THEN fcBacklog ELSE 0)

HasRoom_unbounded(i) == TRUE

HasRoom(i) == Pending(i) < Capacity

\* calls are numbered in the order in which they reach the backend
NextCall(c) == cpc[c] = "idle" /\ \A d \in Calls : d < c => cpc[d] # "idle"

\* the interfaces a run has touched, by a call or by dropping the dispatcher
InUse == {cIface[c] : c \in Calls} \cup {i \in Ifaces : ~rxAlive[i]}
           \cup (IF fcWait THEN {"FileChooser"} ELSE {})
MayUse(i) == Cardinality((InUse \cup {i}) \ {"none"}) <= MaxIfacesInUse

\* handle paths are numbered in the order of their first use
UsedHandles == {cHandle[c] : c \in Calls} \cup {kHandle[k] : k \in Closes}
FreshOrUsed(h) == \A g \in Handles : g < h => g \in UsedHandles

\* The enqueue failed: the Action comes back inside the error and is dropped
\* with it (`let _ =`), its oneshot Sender included, so the wait on the
\* Receiver ends at once with Canceled and unwrap() panics.
SendFailed_hang(c) ==
    /\ cpc' = [cpc EXCEPT ![c] = "await"]
    /\ slot' = slot

SendFailed(c) ==
    /\ cpc' = [cpc EXCEPT ![c] = "panicked"]
    /\ slot' = [slot EXCEPT ![c] = Dropped]

\* AccountInterface::get_user_information, WallpaperInterface::set_wallpaper_uri,
\* SettingsInterface::read / read_all: &mut self, try_send, then wait on the slot
TrySendCall(c, i, h) ==
    /\ i \in TrySendIfaces
    /\ i = "Settings" => h = 0
    /\ i # "Settings" => h \in Handles /\ FreshOrUsed(h)
    /\ NextCall(c)
    /\ ifaceLock[i] = 0
    /\ cIface' = [cIface EXCEPT ![c] = i]
    /\ cHandle' = [cHandle EXCEPT ![c] = h]
    /\ IF rxAlive[i] /\ HasRoom(i)
         THEN /\ chan' = [chan EXCEPT ![i] = Append(@, c)]
              /\ cpc' = [cpc EXCEPT ![c] = "await"]
              /\ ifaceLock' = [ifaceLock EXCEPT ![i] = c]
              /\ sent' = [sent EXCEPT ![c] = "ok"]
              /\ slot' = slot
         ELSE /\ SendFailed(c)
              /\ sent' = [sent EXCEPT ![c] = "err"]
              /\ UNCHANGED <<chan, ifaceLock>>
    /\ UNCHANGED <<reply, fills, senderLock, rxAlive, dispVars, reqVars, closeVars>>
    /\ UNCHANGED <<hostVars, backVars, logicVars, pollVars, loadVars>>

\* FileChooserInterface::open_file / save_file / save_files: &self, so calls
\* overlap; self.sender.lock().await
FCLockSender(c, h) ==
    /\ NextCall(c)
    /\ h \in Handles /\ FreshOrUsed(h)
    /\ senderLock = 0
    /\ senderLock' = c
    /\ cpc' = [cpc EXCEPT ![c] = "sending"]
    /\ cIface' = [cIface EXCEPT ![c] = "FileChooser"]
    /\ cHandle' = [cHandle EXCEPT ![c] = h]
    /\ UNCHANGED <<reply, slot, fills, sent, ifaceLock, chanVars, dispVars, reqVars, closeVars>>
    /\ UNCHANGED <<hostVars, backVars, logicVars, pollVars, loadVars>>

FCSend_keepLock(c) ==
    /\ cpc[c] = "sending"
    /\ rxAlive["FileChooser"] /\ HasRoom("FileChooser")
    /\ senderLock' = senderLock
    /\ chan' = [chan EXCEPT !["FileChooser"] = Append(@, c)]
    /\ cpc' = [cpc EXCEPT ![c] = "await"]
    /\ sent' = [sent EXCEPT ![c] = "ok"]
    /\ slot' = slot
    /\ UNCHANGED <<cIface, cHandle, reply, fills, ifaceLock, rxAlive, dispVars, reqVars, closeVars>>
    /\ UNCHANGED <<hostVars, backVars, logicVars, pollVars, loadVars>>

\* .send(action).await under the sender lock: waits for room, fails when the
\* Receiver is gone; the guard is released at the end of the statement
FCSend(c) ==
    /\ cpc[c] = "sending"
    /\ ~rxAlive["FileChooser"] \/ HasRoom("FileChooser")
    /\ senderLock' = 0
    /\ IF rxAlive["FileChooser"]
         THEN /\ chan' = [chan EXCEPT !["FileChooser"] = Append(@, c)]
              /\ cpc' = [cpc EXCEPT ![c] = "await"]
              /\ sent' = [sent EXCEPT ![c] = "ok"]
              /\ slot' = slot
         ELSE /\ SendFailed(c)
              /\ sent' = [sent EXCEPT ![c] = "err"]
              /\ chan' = chan
    /\ UNCHANGED <<cIface, cHandle, reply, fills, ifaceLock, rxAlive, dispVars, reqVars, closeVars>>
    /\ UNCHANGED <<hostVars, backVars, logicVars, pollVars, loadVars>>

ReleaseIface(c) ==
    ifaceLock' = [i \in Ifaces |-> IF ifaceLock[i] = c THEN 0 ELSE ifaceLock[i]]

\* the slot was filled: next.unwrap().unwrap() / receiver.await.unwrap() hands
\* the value to the transport layer
CallReturn(c) ==
    /\ cpc[c] = "await"
    /\ IsFilled(slot[c])
    /\ reply' = [reply EXCEPT ![c] = slot[c]]
    /\ cpc' = [cpc EXCEPT ![c] = "returned"]
    /\ ReleaseIface(c)
    /\ UNCHANGED <<cIface, cHandle, slot, fills, sent, senderLock, chanVars, dispVars, reqVars, closeVars>>
    /\ UNCHANGED <<hostVars, backVars, logicVars, pollVars, loadVars>>

\* the slot's Sender was dropped unfilled: the wait yields Err(Canceled) and
\* unwrap() panics; nothing is handed back
CallPanic(c) ==
    /\ cpc[c] = "await"
    /\ slot[c] = Dropped
    /\ cpc' = [cpc EXCEPT ![c] = "panicked"]
    /\ ReleaseIface(c)
    /\ UNCHANGED <<cIface, cHandle, reply, slot, fills, sent, senderLock, chanVars, dispVars, reqVars, closeVars>>
    /\ UNCHANGED <<hostVars, backVars, logicVars, pollVars, loadVars>>

\* ------------------------------------------------------------- Request
\* Request::new: object_server.at(handle_path, iface) adds the interface when
\* the path has no RequestInterface yet and reports false, changing nothing,
\* when it has one; the bool is not looked at.  The Request keeps the Receiver.
RequestNew_replace(c) ==
    /\ objects' = [objects EXCEPT ![cHandle[c]] = c]
    /\ regs' = [regs EXCEPT ![c] = @ + 1]
    /\ reqRx' = [reqRx EXCEPT ![c] = TRUE]

RequestNew(c) ==
    /\ IF objects[cHandle[c]] = 0
         THEN /\ objects' = [objects EXCEPT ![cHandle[c]] = c]
              /\ regs' = [regs EXCEPT ![c] = @ + 1]
         ELSE UNCHANGED <<objects, regs>>
    /\ reqRx' = [reqRx EXCEPT ![c] = TRUE]

\* Request::new returned Err: `?` leaves next()/activate(), the Action and its
\* oneshot Sender are dropped unfilled
RegistrationFailed_answer(c) ==
    /\ dpc' = [dpc EXCEPT ![c] = "failed"]
    /\ slot' = [slot EXCEPT ![c] = Filled("Other", c)]
    /\ UNCHANGED <<objects, regs, reqRx>>

RegistrationFailed_leak(c) ==
    /\ dpc' = [dpc EXCEPT ![c] = "failed"]
    /\ slot' = slot
    /\ UNCHANGED <<objects, regs, reqRx>>

RegistrationFailed(c) ==
    /\ dpc' = [dpc EXCEPT ![c] = "failed"]
    /\ slot' = [slot EXCEPT ![c] = Dropped]
    /\ UNCHANGED <<objects, regs, reqRx>>

\* the Request goes out of scope: its Receiver is dropped, and with it every
\* Close message still queued (their oneshot Senders)
DropRequest(c) ==
    /\ reqRx' = [reqRx EXCEPT ![c] = FALSE]
    /\ reqChan' = [reqChan EXCEPT ![c] = <<>>]

DroppedCloses(c) == {reqChan[c][n] : n \in 1..Len(reqChan[c])}

\* Request::next found Action::Close(sender): self.imp.close() starts; the
\* sender is kept until close() has finished
PickClose_ackFirst(c) ==
    /\ picked' = [picked EXCEPT ![c] = Head(reqChan[c])]
    /\ reqChan' = [reqChan EXCEPT ![c] = Tail(@)]
    /\ closeRuns' = [closeRuns EXCEPT ![c] = @ + 1]
    /\ kslot' = [kslot EXCEPT ![Head(reqChan[c])] = "sent"]
    /\ dpc' = [dpc EXCEPT ![c] = "closing"]
    /\ reqRx' = reqRx

PickClose_twice(c) ==
    /\ picked' = [picked EXCEPT ![c] = Head(reqChan[c])]
    /\ reqChan' = [reqChan EXCEPT ![c] = Tail(@)]
    /\ closeRuns' = [closeRuns EXCEPT ![c] = @ + 2]
    /\ kslot' = kslot
    /\ dpc' = [dpc EXCEPT ![c] = "closing"]
    /\ reqRx' = reqRx

PickClose(c) ==
    /\ picked' = [picked EXCEPT ![c] = Head(reqChan[c])]
    /\ reqChan' = [reqChan EXCEPT ![c] = Tail(@)]
    /\ closeRuns' = [closeRuns EXCEPT ![c] = @ + 1]
    /\ kslot' = kslot
    /\ dpc' = [dpc EXCEPT ![c] = "closing"]
    /\ reqRx' = reqRx

\* Request::next: one try_next on the Close channel; with nothing queued it
\* returns and the Request is dropped by the dispatcher
RequestNext(c) ==
    IF reqRx[c] /\ reqChan[c] # <<>>
      THEN PickClose(c)
      ELSE /\ dpc' = [dpc EXCEPT ![c] = "returned"]
           /\ DropRequest(c)
           /\ kslot' = [k \in Closes |->
                          IF k \in DroppedCloses(c) THEN "dropped" ELSE kslot[k]]
           /\ UNCHANGED <<picked, closeRuns>>

\* ------------------------------------------------------------ dispatch
\* let _ = sender.send(result): the oneshot takes the value once
FillSlot_other(c, r) ==
    /\ slot' = [d \in Calls |-> IF d # c /\ cpc[d] = "await" /\ ~IsFilled(slot[d])
                                  THEN r ELSE slot[d]]
    /\ fills' = [d \in Calls |-> IF d # c /\ cpc[d] = "await" /\ ~IsFilled(slot[d])
                                  THEN fills[d] + 1 ELSE fills[d]]

FillSlot(c, r) ==
    /\ slot' = [slot EXCEPT ![c] = r]
    /\ fills' = [fills EXCEPT ![c] = @ + 1]

\* try_next / next take the Action at the head of the channel out of it
Dequeue_keep(i) == chan' = chan

Dequeue_all(i) == chan' = [chan EXCEPT ![i] = <<>>]

Dequeue(i) ==
    /\ i = "FileChooser" => fcBacklog = 0
    /\ chan' = [chan EXCEPT ![i] = Tail(@)]

\* start of a cancellable dispatch: Request::new(...).await? and then the
\* business operation is invoked
BeginDispatch(c, ok) ==
    IF ok
      THEN /\ RequestNew(c)
           /\ dpc' = [dpc EXCEPT ![c] = "running"]
           /\ slot' = slot
      ELSE RegistrationFailed(c)

\* the Action a poll yields: the one at the head of the channel
NextAction_last(i) == chan[i][Len(chan[i])]

NextAction(i) == Head(chan[i])

\* an Action of interface i is between its dequeue and the end of its dispatch
DispatchActive_sticky(i) ==
    \E c \in Calls : cIface[c] = i /\ dpc[c] \in {"taken", "running", "closing", "failed"}

DispatchActive(i) ==
    \E c \in Calls : cIface[c] = i /\ dpc[c] \in {"taken", "running", "closing"}

\* loop { if let Some(action) = x.next().await { x.activate(action).await } }
\* polls again only when the dispatch it awaited is over, failed or not; a
\* host that spawns each dispatch polls at any time
HostIdle_spawn(i) == TRUE

HostIdle(i) == hostMode = "loop" => ~DispatchActive(i)

\* Account::next and Wallpaper::next up to the business call
AccountNext(i, ok) ==
    /\ i \in NextIfaces
    /\ rxAlive[i]
    /\ chan[i] # <<>>
    /\ HostIdle(i)
    /\ Dequeue(i)
    /\ BeginDispatch(NextAction(i), ok)
    /\ UNCHANGED <<cpc, cIface, cHandle, reply, fills, sent, lockVars, rxAlive, result,
                   reqChan, reqLock, picked, deregs, closeRuns, closeEnds, closeVars>>
    /\ UNCHANGED <<hostVars, backVars, logicVars, pollVars, loadVars>>

SettingsNext_request ==
    /\ rxAlive["Settings"]
    /\ chan["Settings"] # <<>>
    /\ HostIdle("Settings")
    /\ Dequeue("Settings")
    /\ dpc' = [dpc EXCEPT ![NextAction("Settings")] = "running"]
    /\ regs' = [regs EXCEPT ![NextAction("Settings")] = @ + 1]
    /\ reqRx' = [reqRx EXCEPT ![NextAction("Settings")] = TRUE]
    /\ UNCHANGED <<callVars, lockVars, rxAlive, result, objects, reqChan, reqLock, picked,
                   deregs, closeRuns, closeEnds, closeVars>>
    /\ UNCHANGED <<hostVars, backVars, logicVars, pollVars, loadVars>>

\* Settings::next up to the business call: no Request is made
SettingsNext ==
    /\ rxAlive["Settings"]
    /\ chan["Settings"] # <<>>
    /\ HostIdle("Settings")
    /\ Dequeue("Settings")
    /\ dpc' = [dpc EXCEPT ![NextAction("Settings")] = "running"]
    /\ UNCHANGED <<callVars, lockVars, rxAlive, result, reqVars, closeVars>>
    /\ UNCHANGED <<hostVars, backVars, logicVars, pollVars, loadVars>>

\* FileChooser::next on an empty channel: self.receiver.lock().await
\* .next().await suspends, the receiver mutex held, until an Action arrives
FCNextWait ==
    /\ rxAlive["FileChooser"]
    /\ Pending("FileChooser") = 0
    /\ HostIdle("FileChooser")
    /\ ~fcWait
    /\ fcWait' = TRUE
    /\ UNCHANGED <<callVars, lockVars, chanVars, dispVars, reqVars, closeVars, hostMode, backVars, logicVars, pollVars, loadVars>>

\* FileChooser::next: hands the Action at the head of the channel to the
\* host, at once or when the suspended poll is woken
FCNext ==
    /\ rxAlive["FileChooser"]
    /\ chan["FileChooser"] # <<>>
    /\ HostIdle("FileChooser")
    /\ Dequeue("FileChooser")
    /\ dpc' = [dpc EXCEPT ![NextAction("FileChooser")] = "taken"]
    /\ fcWait' = FALSE
    /\ UNCHANGED <<hostMode, backVars, logicVars, pollVars, loadVars>>
    /\ UNCHANGED <<callVars, lockVars, rxAlive, result, reqVars, closeVars>>

\* FileChooser::activate up to the business call
FCActivate(c, ok) ==
    /\ dpc[c] = "taken"
    /\ rxAlive["FileChooser"]
    /\ BeginDispatch(c, ok)
    /\ UNCHANGED <<cpc, cIface, cHandle, reply, fills, sent, lockVars, chanVars, result,
                   reqChan, reqLock, picked, deregs, closeRuns, closeEnds, closeVars>>
    /\ UNCHANGED <<hostVars, backVars, logicVars, pollVars, loadVars>>

BusinessDone_deregister(c, kind) ==
    /\ dpc[c] = "running"
    /\ kind \in Outcomes(cIface[c])
    /\ result' = [result EXCEPT ![c] = Filled(kind, c)]
    /\ FillSlot(c, Filled(kind, c))
    /\ IF cIface[c] \in Cancellable
         THEN RequestNext(c)
         ELSE /\ dpc' = [dpc EXCEPT ![c] = "returned"]
              /\ UNCHANGED <<reqRx, reqChan, picked, closeRuns, kslot>>
    /\ UNCHANGED <<cpc, cIface, cHandle, reply, sent, lockVars, chanVars, reqLock,
                   regs, deregs, closeEnds, kpc, kHandle, kTarget, kReplies, kInFlight>>
    /\ UNCHANGED <<hostVars, backVars, logicVars, pollVars, loadVars>>
    /\ objects' = [h \in Handles |-> IF objects[h] = c THEN 0 ELSE objects[h]]

\* the business operation returns; the slot is filled; request.next() runs
BusinessDone(c, kind) ==
    /\ dpc[c] = "running"
    /\ kind \in Outcomes(cIface[c])
    /\ result' = [result EXCEPT ![c] = Filled(kind, c)]
    /\ FillSlot(c, Filled(kind, c))
    /\ IF cIface[c] \in Cancellable
         THEN RequestNext(c)
         ELSE /\ dpc' = [dpc EXCEPT ![c] = "returned"]
              /\ UNCHANGED <<reqRx, reqChan, picked, closeRuns, kslot>>
    /\ UNCHANGED <<cpc, cIface, cHandle, reply, sent, lockVars, chanVars, objects, reqLock,
                   regs, deregs, closeEnds, kpc, kHandle, kTarget, kReplies, kInFlight>>
    /\ UNCHANGED <<hostVars, backVars, logicVars, pollVars, loadVars>>

\* self.imp.close().await is over: let _ = sender.send(()); next() returns
\* and the dispatcher drops the Request
CloseBusinessDone(c) ==
    /\ dpc[c] = "closing"
    /\ closeEnds' = [closeEnds EXCEPT ![c] = @ + 1]
    /\ kslot' = [k \in Closes |->
                   IF k = picked[c] THEN "sent"
                   ELSE IF k \in DroppedCloses(c) THEN "dropped" ELSE kslot[k]]
    /\ dpc' = [dpc EXCEPT ![c] = "returned"]
    /\ DropRequest(c)
    /\ UNCHANGED <<callVars, lockVars, chanVars, result, objects, reqLock, picked,
                   regs, deregs, closeRuns, kpc, kHandle, kTarget, kReplies, kInFlight>>
    /\ UNCHANGED <<hostVars, backVars, logicVars, pollVars, loadVars>>

\* the host lets go of an interface's dispatcher (Account, Wallpaper,
\* Settings, FileChooser value): the channel's Receiver is dropped with the
\* Actions still queued; the adapter stays registered at IMPL_PATH
Queued(i) == {chan[i][n] : n \in 1..Len(chan[i])}

DropDispatcher(i) ==
    /\ rxAlive[i]
    /\ ~DispatchActive(i)
    /\ ~(i = "FileChooser" /\ fcWait)
    /\ rxAlive' = [rxAlive EXCEPT ![i] = FALSE]
    /\ chan' = [chan EXCEPT ![i] = <<>>]
    /\ slot' = [c \in Calls |-> IF c \in Queued(i) THEN Dropped ELSE slot[c]]
    /\ UNCHANGED <<cpc, cIface, cHandle, reply, fills, sent, lockVars, dispVars, reqVars, closeVars>>
    /\ UNCHANGED <<hostVars, backVars, logicVars, pollVars, loadVars>>

\* --------------------------------------------------- RequestInterface::close
NextClose(k) == kpc[k] = "idle" /\ \A j \in Closes : j < k => kpc[j] # "idle"

\* a Close call reaches the object server: the path resolves to the
\* RequestInterface registered there, or the caller is told there is none
CloseLookup(k, h) ==
    /\ NextClose(k)
    /\ FreshOrUsed(h)
    /\ kHandle' = [kHandle EXCEPT ![k] = h]
    /\ IF objects[h] = 0
         THEN /\ kpc' = [kpc EXCEPT ![k] = "notfound"]
              /\ kReplies' = [kReplies EXCEPT ![k] = @ + 1]
              /\ kTarget' = kTarget
         ELSE /\ kpc' = [kpc EXCEPT ![k] = "lockwait"]
              /\ kTarget' = [kTarget EXCEPT ![k] = objects[h]]
              /\ kReplies' = kReplies
    /\ UNCHANGED <<callVars, lockVars, chanVars, dispVars, reqVars, kslot, kInFlight>>
    /\ UNCHANGED <<hostVars, backVars, logicVars, pollVars, loadVars>>

\* close(&mut self): exclusive use of the interface
EnterRequest_shared(k) == TRUE

EnterRequest(k) == reqLock[kTarget[k]] = 0

\* close() up to its wait: let _ = self.sender.try_send(Action::Close(sender));
\* a failed try_send drops the oneshot Sender and next.unwrap().unwrap() panics
CloseEnter(k) ==
    /\ kpc[k] = "lockwait"
    /\ EnterRequest(k)
    /\ LET r == kTarget[k] IN
         IF reqRx[r] /\ Len(reqChan[r]) < Capacity
           THEN /\ reqChan' = [reqChan EXCEPT ![r] = Append(@, k)]
                /\ reqLock' = [reqLock EXCEPT ![r] = k]
                /\ kpc' = [kpc EXCEPT ![k] = "await"]
                /\ kInFlight' = [kInFlight EXCEPT ![k] = (dpc[r] = "running")]
                /\ kslot' = kslot
           ELSE /\ kpc' = [kpc EXCEPT ![k] = "panicked"]
                /\ kslot' = [kslot EXCEPT ![k] = "dropped"]
                /\ UNCHANGED <<reqChan, reqLock, kInFlight>>
    /\ UNCHANGED <<callVars, lockVars, chanVars, dispVars, objects, reqRx, picked,
                   regs, deregs, closeRuns, closeEnds, kHandle, kTarget, kReplies>>
    /\ UNCHANGED <<hostVars, backVars, logicVars, pollVars, loadVars>>

\* server.remove::<Self, _>(&self.handle_path).await?
RemoveObject_skip(k) ==
    /\ objects' = objects
    /\ deregs' = deregs

RemoveObject(k) ==
    /\ objects' = [objects EXCEPT ![kHandle[k]] = 0]
    /\ deregs' = [deregs EXCEPT ![kTarget[k]] = @ + 1]

\* the wait in close() ends: with () the registration is removed and Ok(())
\* is the reply; with Canceled unwrap() panics and there is no reply
CloseResume_always(k) ==
    /\ kpc[k] = "await"
    /\ kslot[k] # "empty"
    /\ RemoveObject(k)
    /\ kpc' = [kpc EXCEPT ![k] = "replied"]
    /\ kReplies' = [kReplies EXCEPT ![k] = @ + 1]
    /\ reqLock' = [reqLock EXCEPT ![kTarget[k]] = 0]
    /\ UNCHANGED <<callVars, lockVars, chanVars, dispVars, reqRx, reqChan, picked,
                   regs, closeRuns, closeEnds, kHandle, kTarget, kslot, kInFlight>>
    /\ UNCHANGED <<hostVars, backVars, logicVars, pollVars, loadVars>>

CloseResume(k) ==
    /\ kpc[k] = "await"
    /\ kslot[k] # "empty"
    /\ IF kslot[k] = "sent"
         THEN /\ RemoveObject(k)
              /\ kpc' = [kpc EXCEPT ![k] = "replied"]
              /\ kReplies' = [kReplies EXCEPT ![k] = @ + 1]
         ELSE /\ kpc' = [kpc EXCEPT ![k] = "panicked"]
              /\ UNCHANGED <<objects, deregs, kReplies>>
    /\ reqLock' = [reqLock EXCEPT ![kTarget[k]] = 0]
    /\ UNCHANGED <<callVars, lockVars, chanVars, dispVars, reqRx, reqChan, picked,
                   regs, closeRuns, closeEnds, kHandle, kTarget, kslot, kInFlight>>
    /\ UNCHANGED <<hostVars, backVars, logicVars, pollVars, loadVars>>

\* ------------------------------------------------------- specification
Next ==
    \/ \E c \in Calls, i \in TrySendIfaces, h \in Handles \cup {0} :
          MayUse(i) /\ TrySendCall(c, i, h)
    \/ \E c \in Calls, h \in Handles : MayUse("FileChooser") /\ FCLockSender(c, h)
    \/ \E c \in Calls : FCSend(c)
    \/ \E c \in Calls : CallReturn(c)
    \/ \E c \in Calls : CallPanic(c)
    \/ \E i \in NextIfaces, ok \in BOOLEAN : AccountNext(i, ok)
    \/ SettingsNext
    \/ MayUse("FileChooser") /\ FCNextWait
    \/ FCNext
    \/ \E c \in Calls, ok \in BOOLEAN : FCActivate(c, ok)
    \/ \E c \in Calls, kind \in ResponseKinds \cup {"Value"} : BusinessDone(c, kind)
    \/ \E c \in Calls : CloseBusinessDone(c)
    \/ \E i \in Ifaces : MayUse(i) /\ DropDispatcher(i)
    \/ \E k \in Closes, h \in Handles : CloseLookup(k, h)
    \/ \E k \in Closes : CloseEnter(k)
    \/ \E k \in Closes : CloseResume(k)

Spec == Init /\ [][Next]_vars

\* The executor resumes a task whose wait has ended, and a business
\* operation that was started returns; when the host polls is up to the host.
Progress ==
    /\ WF_vars(\E c \in Calls : FCSend(c))
    /\ WF_vars(\E c \in Calls : CallReturn(c))
    /\ WF_vars(\E c \in Calls : CallPanic(c))
    /\ WF_vars(\E c \in Calls, kind \in ResponseKinds \cup {"Value"} : BusinessDone(c, kind))
    /\ WF_vars(\E c \in Calls : CloseBusinessDone(c))
    /\ WF_vars(\E k \in Closes : CloseEnter(k))
    /\ WF_vars(\E k \in Closes : CloseResume(k))

FairSpec == Spec /\ Progress

\* the host of main.rs: one loop that awaits each dispatch
LoopInit ==
    /\ DispatchInit
    /\ hostMode = "loop"
    /\ BackendRunning
    /\ LogicIdle

LoopSpec == LoopInit /\ [][Next]_vars

\* a host loop comes back to next() and hands every Action it got to the
\* dispatch
HostPolls ==
    /\ WF_vars(\E i \in NextIfaces, ok \in BOOLEAN : AccountNext(i, ok))
    /\ WF_vars(SettingsNext)
    /\ WF_vars(FCNext)
    /\ WF_vars(\E c \in Calls, ok \in BOOLEAN : FCActivate(c, ok))

PolledSpec == Spec /\ Progress /\ HostPolls

\* ------------------------------------------------------------ demo host
\* init_interfaces builds Wallpaper, Settings and FileChooser on one Backend
DemoIfaces == {"FileChooser", "Settings", "Wallpaper"}

DemoInit ==
    /\ DispatchInit
    /\ hostMode = "loop"
    /\ bpc = "Constructed"
    /\ bErr = "none"
    /\ busName = "backend"
    /\ ifaceRegs = DemoIfaces
    /\ holders = {"host"}
    /\ releases = 0
    /\ dropLogs = 0
    /\ dropPanics = 0
    /\ LogicIdle

\* its loop polls file_chooser only; the bus delivers calls to all three
DemoNext ==
    \/ \E c \in Calls, i \in DemoIfaces \cap TrySendIfaces, h \in Handles \cup {0} :
          TrySendCall(c, i, h)
    \/ \E c \in Calls, h \in Handles : FCLockSender(c, h)
    \/ \E c \in Calls : FCSend(c)
    \/ \E c \in Calls : CallReturn(c)
    \/ \E c \in Calls : CallPanic(c)
    \/ FCNextWait
    \/ FCNext
    \/ \E c \in Calls, ok \in BOOLEAN : FCActivate(c, ok)
    \/ \E c \in Calls, kind \in ResponseKinds : BusinessDone(c, kind)
    \/ \E c \in Calls : CloseBusinessDone(c)
    \/ \E k \in Closes, h \in Handles : CloseLookup(k, h)
    \/ \E k \in Closes : CloseEnter(k)
    \/ \E k \in Closes : CloseResume(k)

DemoSpec == DemoInit /\ [][DemoNext]_vars

\* the loop of init_interfaces never ends
DemoLoop ==
    /\ WF_vars(FCNext)
    /\ WF_vars(\E c \in Calls, ok \in BOOLEAN : FCActivate(c, ok))

DemoFairSpec == DemoSpec /\ Progress /\ DemoLoop

\* -------------------------------------------------------------- Backend
\* proxy.request_name(name, ReplaceExisting): the bus makes the caller the
\* owner of a free name or of one whose owner allows replacement; behind an
\* owner that does not, the caller is queued and the reply says so.  The
\* reply is not looked at.
RequestName(owner) == IF owner \in {"free", "other"} THEN "backend" ELSE owner

\* Backend::new / new_inner: Connection::session().await.unwrap(), then
\* DBusProxy build, name.try_into() and request_name, each with `?`
BackendNew(sessionOk, proxyOk, nameOk, callOk) ==
    /\ bpc = "Uninitialized"
    /\ IF ~sessionOk
         THEN /\ bpc' = "Panicked"
              /\ bErr' = "session"
              /\ UNCHANGED <<busName, holders>>
         ELSE IF ~proxyOk \/ ~nameOk \/ ~callOk
           THEN /\ bpc' = "Failed"
                /\ bErr' = IF ~proxyOk THEN "proxy" ELSE IF ~nameOk THEN "name" ELSE "request"
                /\ UNCHANGED <<busName, holders>>
           ELSE /\ bpc' = "Constructed"
                /\ bErr' = "none"
                /\ busName' = RequestName(busName)
                /\ holders' = {"host"}
    /\ UNCHANGED <<ifaceRegs, releases, dropLogs, dropPanics>>
    /\ UNCHANGED <<callVars, lockVars, chanVars, dispVars, reqVars, closeVars, hostVars, logicVars, pollVars, loadVars>>

\* Account::new, Wallpaper::new, Settings::new, FileChooser::new on the
\* host's Backend: object_server.at(IMPL_PATH, iface).await?; Settings::new
\* asks for the name itself first; Account keeps backend.clone()
IfaceNew(i, callOk, ok) ==
    /\ bpc = "Constructed"
    /\ "host" \in holders
    /\ i \notin ifaceRegs
    /\ i # "Settings" => callOk
    /\ IF ~callOk
         THEN /\ bErr' = "request"
              /\ UNCHANGED <<busName, ifaceRegs, holders>>
         ELSE /\ busName' = IF i = "Settings" THEN RequestName(busName) ELSE busName
              /\ IF ok
                   THEN /\ ifaceRegs' = ifaceRegs \cup {i}
                        /\ holders' = IF i = "Account" THEN holders \cup {"Account"} ELSE holders
                        /\ bErr' = bErr
                   ELSE /\ bErr' = "register"
                        /\ UNCHANGED <<ifaceRegs, holders>>
    /\ UNCHANGED <<bpc, releases, dropLogs, dropPanics>>
    /\ UNCHANGED <<callVars, lockVars, chanVars, dispVars, reqVars, closeVars, hostVars, logicVars, pollVars, loadVars>>

\* Backend::release run by the task that drop() spawned
ReleaseName(releaseOk) ==
    IF releaseOk
      THEN /\ busName' = IF busName = "backend" THEN "free" ELSE busName
           /\ dropLogs' = dropLogs
      ELSE /\ dropLogs' = dropLogs + 1
           /\ busName' = busName

\* impl Drop for Backend, for the value held by h: both fields are taken,
\* ThreadPool::new().unwrap(), executor.spawn(release task); a spawn error and
\* a release error are logged
BackendDrop(h, poolOk, spawnOk, releaseOk) ==
    /\ h \in holders
    /\ holders' = holders \ {h}
    /\ IF ~poolOk
         THEN /\ dropPanics' = dropPanics + 1
              /\ UNCHANGED <<releases, dropLogs, busName>>
         ELSE IF ~spawnOk
           THEN /\ dropLogs' = dropLogs + 1
                /\ UNCHANGED <<releases, dropPanics, busName>>
           ELSE /\ releases' = releases + 1
                /\ ReleaseName(releaseOk)
                /\ dropPanics' = dropPanics
    /\ UNCHANGED <<bpc, bErr, ifaceRegs>>
    /\ UNCHANGED <<callVars, lockVars, chanVars, dispVars, reqVars, closeVars, hostVars, logicVars, pollVars, loadVars>>

\* the process before Backend::new: the name is free on the bus or owned by
\* another process, which allows replacement or does not
BackendInit ==
    /\ DispatchInit
    /\ hostMode = "loop"
    /\ bpc = "Uninitialized"
    /\ bErr = "none"
    /\ busName \in {"free", "other", "pinned"}
    /\ ifaceRegs = {}
    /\ holders = {}
    /\ releases = 0
    /\ dropLogs = 0
    /\ dropPanics = 0
    /\ LogicIdle

BackendNext ==
    \/ \E sessionOk, proxyOk, nameOk, callOk \in BOOLEAN :
          BackendNew(sessionOk, proxyOk, nameOk, callOk)
    \/ \E i \in Ifaces, callOk, ok \in BOOLEAN : IfaceNew(i, callOk, ok)
    \/ \E h \in {"host", "Account"}, poolOk, spawnOk, releaseOk \in BOOLEAN :
          BackendDrop(h, poolOk, spawnOk, releaseOk)

BackendSpec == BackendInit /\ [][BackendNext]_vars

\* ------------------------------------------------ demo: the file chooser
\* WindowIdentifierType's variants
WindowIdKinds == {"Wayland", "X11"}
\* what gdk_display_open(NULL) gives: a display of one kind, or none
Displays == {"Wayland", "X11", "none"}
\* Option<bool> of OpenFileOptions
OptBools == {"unset", "false", "true"}
\* options.choices: absent, boolean choices only (no pairs), or some choice
\* that carries pairs
ChoiceShapes == {"none", "boolean", "combo"}
\* what run_future resolves to
DialogResults == {"Ok", "Cancel", "DeleteEvent"}
\* the URIs GIO reports for the files the dialog can show
Files == {"file:///home/u/a.txt", "ftp://Host/b.txt", "mtp://[usb:001,004]/c.txt"}
\* URIs a remote caller can send
WireUris == {"file:///bg.png", "file:///tmp/../bg.png", "FILE:///bg.png"}

\* url::Url::parse followed by as_str: the serialisation is normalised (scheme
\* and special-scheme host in lower case, dot segments removed) and a
\* bracketed host that is no IPv6 address is rejected
UrlParse(s) ==
    CASE s = "mtp://[usb:001,004]/c.txt" -> "invalid"
      [] s = "mtp://[usb:001,004]/docs" -> "invalid"
      [] s = "ftp://Host/b.txt" -> "ftp://host/b.txt"
      [] s = "file:///tmp/../bg.png" -> "file:///bg.png"
      [] s = "FILE:///bg.png" -> "file:///bg.png"
      [] OTHER -> s

ExternalWaylandWindowNew(display) == IF display = "Wayland" THEN "Wayland" ELSE "None"

ExternalX11WindowNew(display) == IF display = "X11" THEN "X11" ELSE "None"

\* ExternalWindow::try_new
TryNew(wid, display) ==
    IF wid = "Wayland" THEN ExternalWaylandWindowNew(display)
    ELSE ExternalX11WindowNew(display)

\* ExternalWindow::new_fake_window: the display the fake window is made on
NewFakeWindow(external) == IF external = "None" THEN "default" ELSE external

ParentOf_always(external, wid) == wid

\* the parent the dialog's surface gets: set_parent_of runs for Some(external)
ParentOf(external, wid) == IF external = "None" THEN "none" ELSE external

AcceptLabel(multiple) == IF multiple = "true" THEN "_Select" ELSE "_Open"

DialogAction(directory) == IF directory = "true" THEN "SelectFolder" ELSE "Open"

\* Option<Vec<Url>> and Option<bool> of OpenFileResults
NoUris == [some |-> FALSE, list |-> {}]
NoBool == [some |-> FALSE, val |-> FALSE]
NoResp == [kind |-> "none", uris |-> NoUris, writable |-> NoBool]
\* options.files of SaveFilesOptions when absent
NoFiles == [some |-> FALSE, list |-> <<>>]

Uris_emptyList(selection) ==
    [some |-> TRUE, list |-> {UrlParse(f) : f \in selection} \ {"invalid"}]

\* the uris of an accepted dialog: those that parse, None when none is left
Uris(selection) ==
    LET parsed == {UrlParse(f) : f \in selection} \ {"invalid"}
    IN  [some |-> parsed # {}, list |-> parsed]

\* file_chooser.choice("read-only").map(|val| &val == "false")
Writable(choice) == [some |-> TRUE, val |-> choice = "false"]

\* open_file_dialog up to run_future: the window is resolved, the dialog made
\* and parented, the choices added.  A choice with pairs hands
\* gtk_file_chooser_add_choice pointers into vectors that were already
\* dropped: the call may go on or end the process.
OpenFileDialog(wid, display, multiple, directory, choices, survives) ==
    /\ dlg.stage \in {"none", "done"}
    /\ LET external == TryNew(wid, display)
       IN  dlg' = [stage |-> IF choices = "combo" /\ ~survives THEN "aborted" ELSE "shown",
                   wid |-> wid, display |-> display, multiple |-> multiple,
                   directory |-> directory, choices |-> choices,
                   external |-> external,
                   fakeDisplay |-> NewFakeWindow(external),
                   parent |-> ParentOf(external, wid),
                   action |-> DialogAction(directory),
                   acceptLabel |-> AcceptLabel(multiple),
                   readOnly |-> "false",
                   selection |-> {},
                   resp |-> NoResp,
                   op |-> "OpenFile", files |-> NoFiles, folder |-> "none",
                   dir |-> {}, idx |-> 0, file |-> <<>>, unique_id |-> 0,
                   uris |-> <<>>, result |-> "none"]
    /\ UNCHANGED <<callVars, lockVars, chanVars, dispVars, reqVars, closeVars, hostVars,
                   backVars, gs, log, wire, pollVars, loadVars>>

\* the user ticks or unticks the "read-only" choice of the shown dialog
\* (save_file_dialog adds no such choice)
ToggleReadOnly ==
    /\ dlg.stage = "shown"
    /\ dlg.op # "SaveFile"
    /\ dlg' = [dlg EXCEPT !.readOnly = IF @ = "false" THEN "true" ELSE "false"]
    /\ UNCHANGED <<callVars, lockVars, chanVars, dispVars, reqVars, closeVars, hostVars,
                   backVars, gs, log, wire, pollVars, loadVars>>

\* the user selects a file, or nothing: select-multiple is never switched on
SelectFile(selection) ==
    /\ dlg.stage = "shown"
    /\ dlg.op \in {"OpenFile", "SaveFile"}
    /\ Cardinality(selection) <= 1
    /\ dlg.selection # selection
    /\ dlg' = [dlg EXCEPT !.selection = selection]
    /\ UNCHANGED <<callVars, lockVars, chanVars, dispVars, reqVars, closeVars, hostVars,
                   backVars, gs, log, wire, pollVars, loadVars>>

\* open_file_dialog from run_future's result on
DialogResponse(res) ==
    /\ dlg.stage = "shown"
    /\ dlg.op = "OpenFile"
    /\ dlg' = [dlg EXCEPT
                 !.stage = "done",
                 !.result = res,
                 !.resp = CASE res = "Ok" -> [kind |-> "Ok", uris |-> Uris(dlg.selection),
                                              writable |-> Writable(dlg.readOnly)]
                            [] res = "Cancel" -> [NoResp EXCEPT !.kind = "Cancelled"]
                            [] OTHER -> [NoResp EXCEPT !.kind = "Other"]]
    /\ UNCHANGED <<callVars, lockVars, chanVars, dispVars, reqVars, closeVars, hostVars,
                   backVars, gs, log, wire, pollVars, loadVars>>

\* --------------------------------------------------- FileName on the wire
\* longest byte array that is deserialized
MaxBytes == 4

\* NUL, '/' and 'a'
Bytes == {0, 47, 97}

ByteArrays == UNION {[1..n -> Bytes] : n \in 0..MaxBytes}

\* memchr(0, bytes): the position of the first NUL byte, counted from 0, or
\* -1 when there is none
RECURSIVE Memchr(_, _)
Memchr(bytes, from) ==
    IF from > Len(bytes) THEN -1
    ELSE IF bytes[from] = 0 THEN from - 1
    ELSE Memchr(bytes, from + 1)

FromVecWithNul_lastByte(bytes) ==
    IF Len(bytes) > 0 /\ bytes[Len(bytes)] = 0 THEN "Ok" ELSE "NotNulTerminated"

\* CString::from_vec_with_nul: the first NUL has to be the last byte
FromVecWithNul(bytes) ==
    LET nul_pos == Memchr(bytes, 1)
    IN  IF nul_pos = -1 THEN "NotNulTerminated"
        ELSE IF nul_pos + 1 = Len(bytes) THEN "Ok"
        ELSE "InteriorNul"

\* <FileName as Deserialize>::deserialize: the CString keeps the bytes before
\* the NUL, every from_vec_with_nul error becomes the one custom error
Deserialize ==
    /\ wire.stage = "arrived"
    /\ wire' = IF FromVecWithNul(wire.bytes) = "Ok"
               THEN [wire EXCEPT !.stage = "done", !.ok = TRUE,
                                 !.name = SubSeq(wire.bytes, 1, Len(wire.bytes) - 1)]
               ELSE [wire EXCEPT !.stage = "done", !.ok = FALSE,
                                 !.err = "Bytes are not null-terminated"]
    /\ UNCHANGED <<callVars, lockVars, chanVars, dispVars, reqVars, closeVars, hostVars,
                   backVars, gs, log, dlg, pollVars, loadVars>>

WireInit ==
    /\ DispatchInit
    /\ hostMode = "loop"
    /\ BackendRunning
    /\ DemoIdle
    /\ \E bytes \in ByteArrays : wire = [NoWire EXCEPT !.stage = "arrived", !.bytes = bytes]

WireNext == Deserialize

WireSpec == WireInit /\ [][WireNext]_vars

\* ------------------------------------------------ demo: the save dialogs
\* a file name as its dot-separated parts, each part a text followed by the
\* " (n)" identifiers appended to it: "a (1).txt" is <<Part("a", <<1>>), Part("txt", <<>>)>>
Part(s, ids) == [s |-> s, ids |-> ids]

NameATxt == <<Part("a", <<>>), Part("txt", <<>>)>>
NameA1Txt == <<Part("a", <<1>>), Part("txt", <<>>)>>
NameA12Txt == <<Part("a", <<1, 2>>), Part("txt", <<>>)>>
NameB == <<Part("b", <<>>)>>
NameB1 == <<Part("b", <<1>>)>>
NameATarGz == <<Part("a", <<>>), Part("tar", <<>>), Part("gz", <<>>)>>
NameAGz == <<Part("a", <<>>), Part("gz", <<>>)>>

\* options.files: absent, empty, or the requested names in request order
FileRequests ==
    {NoFiles} \cup
    {[some |-> TRUE, list |-> l] :
        l \in {<<>>, <<NameATxt>>, <<NameB>>, <<NameATarGz>>, <<NameATxt, NameB>>,
               <<NameATxt, NameATxt>>, <<NameB, NameATarGz>>}}

\* what the chosen folder holds when the dialog is accepted
Listings ==
    {{}, {NameATxt}, {NameATxt, NameA1Txt}, {NameATxt, NameA1Txt, NameA12Txt, NameB},
     {NameB, NameB1, NameATarGz}, {NameATarGz, NameAGz, NameATxt}}

\* file_chooser.file() of the accepted dialog: no folder, a local folder, or
\* a folder of a GIO mount
Folders == {"none", "file:///home/u/docs", "mtp://[usb:001,004]/docs"}

\* the new path of one round of the renaming loop: the identifier goes after
\* the stem, and with_extension then replaces whatever follows the last dot
\* of the result
NewPath(old_name, unique_id) ==
    LET n == Len(old_name)
        stem == [old_name[1] EXCEPT !.ids = Append(@, unique_id)]
    IN  IF n = 1 THEN <<stem>>
        ELSE IF n = 2 THEN <<stem, old_name[2]>>
        ELSE SubSeq(old_name, 1, n - 2) \o <<old_name[n]>>

\* file.uri() of base_dir.child(name), and url::Url::parse of it: the URI
\* parses when the folder's does
ChildUri(folder, name) == [folder |-> UrlParse(folder), name |-> name]

UriParses(folder) == UrlParse(folder) # "invalid"

\* save_file_dialog up to run_future: as open_file_dialog, with the Save
\* action, the "_Save" label and no choice of its own
SaveFileDialog(wid, display, choices, survives) ==
    /\ dlg.stage \in {"none", "done"}
    /\ LET external == TryNew(wid, display)
       IN  dlg' = [NoDialog EXCEPT
                     !.stage = IF choices = "combo" /\ ~survives THEN "aborted" ELSE "shown",
                     !.wid = wid, !.display = display, !.choices = choices,
                     !.external = external,
                     !.fakeDisplay = NewFakeWindow(external),
                     !.parent = ParentOf(external, wid),
                     !.action = "Save",
                     !.acceptLabel = "_Save",
                     !.op = "SaveFile"]
    /\ UNCHANGED <<callVars, lockVars, chanVars, dispVars, reqVars, closeVars, hostVars,
                   backVars, gs, log, wire, pollVars, loadVars>>

\* save_file_dialog from run_future's result on: SaveFileResults has no
\* writable
SaveFileResponse(res) ==
    /\ dlg.stage = "shown"
    /\ dlg.op = "SaveFile"
    /\ dlg' = [dlg EXCEPT
                 !.stage = "done",
                 !.result = res,
                 !.resp = CASE res = "Ok" -> [kind |-> "Ok", uris |-> Uris(dlg.selection),
                                              writable |-> NoBool]
                            [] res = "Cancel" -> [NoResp EXCEPT !.kind = "Cancelled"]
                            [] OTHER -> [NoResp EXCEPT !.kind = "Other"]]
    /\ UNCHANGED <<callVars, lockVars, chanVars, dispVars, reqVars, closeVars, hostVars,
                   backVars, gs, log, wire, pollVars, loadVars>>

\* save_files_dialog up to run_future: the SelectFolder action, the
\* "read-only" choice pushed after the caller's
SaveFilesDialog(wid, display, choices, survives, files) ==
    /\ dlg.stage \in {"none", "done"}
    /\ LET external == TryNew(wid, display)
       IN  dlg' = [NoDialog EXCEPT
                     !.stage = IF choices = "combo" /\ ~survives THEN "aborted" ELSE "shown",
                     !.wid = wid, !.display = display, !.choices = choices,
                     !.external = external,
                     !.fakeDisplay = NewFakeWindow(external),
                     !.parent = ParentOf(external, wid),
                     !.action = "SelectFolder",
                     !.acceptLabel = "_Save",
                     !.op = "SaveFiles",
                     !.files = files]
    /\ UNCHANGED <<callVars, lockVars, chanVars, dispVars, reqVars, closeVars, hostVars,
                   backVars, gs, log, wire, pollVars, loadVars>>

\* the Ok response of save_files_dialog once the uris are collected
SaveFilesOk(uris) ==
    [kind |-> "Ok",
     uris |-> [some |-> uris # <<>>, list |-> {uris[n] : n \in 1..Len(uris)}],
     writable |-> NoBool]

\* save_files_dialog from run_future's result up to the first round of the
\* renaming loop (folder, dir: what file_chooser.file() is and what it holds)
SaveFilesResponse(res, folder, dir) ==
    /\ dlg.stage = "shown"
    /\ dlg.op = "SaveFiles"
    /\ dlg' = [
         (CASE res = "Ok" /\ ~dlg.files.some ->
                [dlg EXCEPT !.stage = "done", !.resp = SaveFilesOk(<<>>)]
           [] res = "Ok" /\ dlg.files.some /\ folder = "none" ->
                [dlg EXCEPT !.stage = "done", !.resp = [NoResp EXCEPT !.kind = "Other"]]
           [] res = "Ok" /\ dlg.files.some /\ folder # "none" /\ dlg.files.list = <<>> ->
                [dlg EXCEPT !.stage = "done", !.folder = folder, !.dir = dir,
                            !.resp = SaveFilesOk(<<>>)]
           [] res = "Ok" /\ dlg.files.some /\ folder # "none" /\ dlg.files.list # <<>> ->
                [dlg EXCEPT !.stage = "renaming", !.folder = folder, !.dir = dir,
                            !.idx = 1, !.file = dlg.files.list[1], !.unique_id = 0]
           [] res = "Cancel" ->
                [dlg EXCEPT !.stage = "done", !.resp = [NoResp EXCEPT !.kind = "Cancelled"]]
           [] OTHER ->
                [dlg EXCEPT !.stage = "done", !.resp = [NoResp EXCEPT !.kind = "Other"]])
         EXCEPT !.result = res]
    /\ UNCHANGED <<callVars, lockVars, chanVars, dispVars, reqVars, closeVars, hostVars,
                   backVars, gs, log, wire, pollVars, loadVars>>

\* file.query_exists
QueryExists(d) == d.file \in d.dir

\* one round of the while loop: the candidate exists, the next one is made
\* from the candidate's own name
RenameRound ==
    /\ dlg.stage = "renaming"
    /\ QueryExists(dlg)
    /\ dlg' = [dlg EXCEPT !.unique_id = @ + 1,
                          !.file = NewPath(dlg.file, dlg.unique_id + 1)]
    /\ UNCHANGED <<callVars, lockVars, chanVars, dispVars, reqVars, closeVars, hostVars,
                   backVars, gs, log, wire, pollVars, loadVars>>

\* the while loop is left: the candidate's uri is parsed and pushed, and the
\* next requested name is taken up, or the response made after the last
PushUri ==
    /\ dlg.stage = "renaming"
    /\ ~QueryExists(dlg)
    /\ dlg' =
         IF ~UriParses(dlg.folder)
         THEN [dlg EXCEPT !.stage = "done", !.resp = [NoResp EXCEPT !.kind = "Other"]]
         ELSE LET uris == Append(dlg.uris, ChildUri(dlg.folder, dlg.file))
              IN  IF dlg.idx < Len(dlg.files.list)
                  THEN [dlg EXCEPT !.uris = uris, !.idx = @ + 1,
                                   !.file = dlg.files.list[dlg.idx + 1],
                                   !.unique_id = 0]
                  ELSE [dlg EXCEPT !.uris = uris, !.stage = "done",
                                   !.resp = SaveFilesOk(uris)]
    /\ UNCHANGED <<callVars, lockVars, chanVars, dispVars, reqVars, closeVars, hostVars,
                   backVars, gs, log, wire, pollVars, loadVars>>


DialogInit ==
    /\ DispatchInit
    /\ hostMode = "loop"
    /\ BackendRunning
    /\ LogicIdle

DialogNext ==
    \/ \E wid \in WindowIdKinds, display \in Displays, multiple, directory \in OptBools,
          choices \in ChoiceShapes, survives \in BOOLEAN :
          OpenFileDialog(wid, display, multiple, directory, choices, survives)
    \/ ToggleReadOnly
    \/ \E selection \in SUBSET Files : SelectFile(selection)
    \/ \E res \in DialogResults : DialogResponse(res)
    \/ \E wid \in WindowIdKinds, display \in Displays, choices \in ChoiceShapes,
          survives \in BOOLEAN :
          SaveFileDialog(wid, display, choices, survives)
    \/ \E res \in DialogResults : SaveFileResponse(res)
    \/ \E wid \in WindowIdKinds, display \in Displays, choices \in ChoiceShapes,
          survives \in BOOLEAN, files \in FileRequests :
          SaveFilesDialog(wid, display, choices, survives, files)
    \/ \E res \in DialogResults, folder \in Folders, dir \in Listings :
          SaveFilesResponse(res, folder, dir)
    \/ RenameRound
    \/ PushUri

DialogSpec == DialogInit /\ [][DialogNext]_vars

\* the renaming loop is straight-line code: it runs on once entered
DialogFairSpec == DialogSpec /\ WF_vars(RenameRound) /\ WF_vars(PushUri)

\* ------------------------------------------- demo: wallpaper and settings
\* operations of one run that are kept in the log
MaxOps == 3

\* set_gsetting: two writes in a row, the second only after the first went
\* through (w1, w2: whether the store accepts the write)
SetGsetting_darkOnly(store, uri, w1, w2) == [store EXCEPT !["picture-uri-dark"] = uri]

SetGsetting(store, uri, w1, w2) ==
    IF ~w1 THEN store
    ELSE IF ~w2 THEN [store EXCEPT !["picture-uri"] = uri]
    ELSE [k \in StoreKeys |-> uri]

\* SetWallpaperURI, dispatched: the adapter's uri argument is a url::Url made
\* from the string on the wire, the business logic writes its as_str() to the
\* store and answers Ok when both writes went through
SetWallpaperUri(u, w1, w2) ==
    /\ Len(log) < MaxOps
    /\ gs' = SetGsetting(gs, UrlParse(u), w1, w2)
    /\ log' = Append(log, [op |-> "set", arg |-> u,
                           out |-> IF w1 /\ w2 THEN "Ok" ELSE "Other"])
    /\ UNCHANGED <<callVars, lockVars, chanVars, dispVars, reqVars, closeVars, hostVars,
                   backVars, dlg, wire, pollVars, loadVars>>

SettingsRead_reset(key) ==
    /\ Len(log) < MaxOps
    /\ gs' = [gs EXCEPT ![key] = DefaultUri]
    /\ log' = Append(log, [op |-> "read", arg |-> key, out |-> gs[key]])
    /\ UNCHANGED <<callVars, lockVars, chanVars, dispVars, reqVars, closeVars, hostVars,
                   backVars, dlg, wire, pollVars, loadVars>>

\* Read of a key of the background namespace, dispatched: the value the store
\* holds is sent back
SettingsRead(key) ==
    /\ Len(log) < MaxOps
    /\ log' = Append(log, [op |-> "read", arg |-> key, out |-> gs[key]])
    /\ UNCHANGED <<callVars, lockVars, chanVars, dispVars, reqVars, closeVars, hostVars,
                   backVars, gs, dlg, wire, pollVars, loadVars>>

\* ReadAll, dispatched: the whole group is sent back
SettingsReadAll ==
    /\ Len(log) < MaxOps
    /\ log' = Append(log, [op |-> "readAll", arg |-> "*", out |-> gs])
    /\ UNCHANGED <<callVars, lockVars, chanVars, dispVars, reqVars, closeVars, hostVars,
                   backVars, gs, dlg, wire, pollVars, loadVars>>

StoreInit ==
    /\ DispatchInit
    /\ hostMode = "loop"
    /\ BackendRunning
    /\ LogicIdle

StoreNext ==
    \/ \E u \in WireUris, w1, w2 \in BOOLEAN : SetWallpaperUri(u, w1, w2)
    \/ \E key \in StoreKeys : SettingsRead(key)
    \/ SettingsReadAll

StoreSpec == StoreInit /\ [][StoreNext]_vars

\* ------------------------------------------- polls from several threads
\* Account, Wallpaper (and Settings, Request) keep the Receiver in a RefCell
\* and are declared Sync by an unsafe impl, so next() can be called on one
\* dispatcher from several threads; FileChooser keeps it in an async Mutex.

\* the threads that are inside interface i's receive end
Inside(i) == {p \in Pollers : ppc[p].iface = i /\ ppc[p].at \in {"inside", "took"}}

\* RefCell::borrow_mut, first half: the borrow flag is read; a flag that says
\* borrowed makes borrow_mut panic
BorrowMut(p, i) ==
    /\ ppc[p].at = "idle"
    /\ i \in NextIfaces
    /\ rxAlive[i]
    /\ ppc' = [ppc EXCEPT ![p] = [at |-> IF rxFlag[i] = 0 THEN "checked" ELSE "panicked",
                                  iface |-> i, act |-> 0]]
    /\ UNCHANGED <<callVars, lockVars, chanVars, dispVars, reqVars, closeVars, hostVars,
                   backVars, logicVars, rxFlag, loadVars>>

\* RefCell::borrow_mut, second half: the flag is written and the RefMut handed
\* out; the flag is a plain Cell, nothing ties the write to the read
BorrowMutSet(p) ==
    /\ ppc[p].at = "checked"
    /\ rxFlag' = [rxFlag EXCEPT ![ppc[p].iface] = 1]
    /\ ppc' = [ppc EXCEPT ![p].at = "inside"]
    /\ UNCHANGED <<callVars, lockVars, chanVars, dispVars, reqVars, closeVars, hostVars,
                   backVars, logicVars, loadVars>>

\* FileChooser::next: self.receiver.lock().await is granted while the Mutex
\* is free
ReceiverLock(p) ==
    /\ ppc[p].at = "idle"
    /\ rxAlive["FileChooser"]
    /\ rxFlag["FileChooser"] = 0
    /\ rxFlag' = [rxFlag EXCEPT !["FileChooser"] = 1]
    /\ ppc' = [ppc EXCEPT ![p] = [at |-> "inside", iface |-> "FileChooser", act |-> 0]]
    /\ UNCHANGED <<callVars, lockVars, chanVars, dispVars, reqVars, closeVars, hostVars,
                   backVars, logicVars, loadVars>>

\* try_next (RefCell dispatchers: the head of the channel or None) and
\* next().await (FileChooser: resumes when there is an Action).  With a second
\* thread inside, the accesses to the Receiver race and nothing is defined
\* from there on.
PollTryNext(p) ==
    /\ ppc[p].at = "inside"
    /\ Inside(ppc[p].iface) = {p}
    /\ IF chan[ppc[p].iface] # <<>>
         THEN /\ Dequeue(ppc[p].iface)
              /\ dpc' = [dpc EXCEPT ![NextAction(ppc[p].iface)] = "taken"]
              /\ ppc' = [ppc EXCEPT ![p].at = "took", ![p].act = NextAction(ppc[p].iface)]
         ELSE /\ ppc[p].iface \in NextIfaces
              /\ ppc' = [ppc EXCEPT ![p].at = "took"]
              /\ UNCHANGED <<chan, dpc>>
    /\ UNCHANGED <<callVars, lockVars, rxAlive, result, reqVars, closeVars, hostVars,
                   backVars, logicVars, rxFlag, loadVars>>

\* end of the statement that polled: the RefMut / MutexGuard temporary is
\* dropped; next() returns when there was no Action
PollRelease(p) ==
    /\ ppc[p].at = "took"
    /\ rxFlag' = [rxFlag EXCEPT ![ppc[p].iface] = 0]
    /\ ppc' = [ppc EXCEPT ![p] = IF ppc[p].act = 0 THEN IdlePoller
                                 ELSE [ppc[p] EXCEPT !.at = "released"]]
    /\ UNCHANGED <<callVars, lockVars, chanVars, dispVars, reqVars, closeVars, hostVars,
                   backVars, logicVars, loadVars>>

\* the rest of next() / activate(): Request::new(...).await?, then the
\* business operation is invoked
PollDispatch(p, ok) ==
    /\ ppc[p].at = "released"
    /\ BeginDispatch(ppc[p].act, ok)
    /\ ppc' = [ppc EXCEPT ![p] = IdlePoller]
    /\ UNCHANGED <<cpc, cIface, cHandle, reply, fills, sent, lockVars, chanVars, result,
                   reqChan, reqLock, picked, deregs, closeRuns, closeEnds, closeVars>>
    /\ UNCHANGED <<hostVars, backVars, logicVars, rxFlag, loadVars>>

PollInit ==
    /\ DispatchInit
    /\ hostMode = "spawn"
    /\ BackendRunning
    /\ LogicIdle

PollNext ==
    \/ \E c \in Calls, i \in NextIfaces, h \in Handles :
          MayUse(i) /\ TrySendCall(c, i, h)
    \/ \E c \in Calls, h \in Handles : MayUse("FileChooser") /\ FCLockSender(c, h)
    \/ \E c \in Calls : FCSend(c)
    \/ \E c \in Calls : CallReturn(c)
    \/ \E c \in Calls : CallPanic(c)
    \/ \E p \in Pollers, i \in NextIfaces : BorrowMut(p, i)
    \/ \E p \in Pollers : BorrowMutSet(p)
    \/ \E p \in Pollers : ReceiverLock(p)
    \/ \E p \in Pollers : PollTryNext(p)
    \/ \E p \in Pollers : PollRelease(p)
    \/ \E p \in Pollers, ok \in BOOLEAN : PollDispatch(p, ok)
    \/ \E c \in Calls, kind \in ResponseKinds \cup {"Value"} : BusinessDone(c, kind)

PollSpec == PollInit /\ [][PollNext]_vars

\* ------------------------------------- FileChooser calls on a loaded channel
\* what the channel may hold of earlier calls when the calls followed here
\* arrive: nothing, a full buffer, or buffer and sender slot
Backlogs == {0, ChanBuffer, Capacity}

\* FileChooserInterface::open_file / save_file / save_files arriving while
\* another call holds the sender Mutex: self.sender.lock().await suspends
FCLockWait(c, h) ==
    /\ NextCall(c)
    /\ h \in Handles /\ FreshOrUsed(h)
    /\ senderLock # 0
    /\ cpc' = [cpc EXCEPT ![c] = "lockwait"]
    /\ cIface' = [cIface EXCEPT ![c] = "FileChooser"]
    /\ cHandle' = [cHandle EXCEPT ![c] = h]
    /\ UNCHANGED <<reply, slot, fills, sent, lockVars, chanVars, dispVars, reqVars, closeVars>>
    /\ UNCHANGED <<hostVars, backVars, logicVars, pollVars, loadVars>>

\* the Mutex was released: a suspended lock().await is granted it
FCLockGranted(c) ==
    /\ cpc[c] = "lockwait"
    /\ senderLock = 0
    /\ senderLock' = c
    /\ cpc' = [cpc EXCEPT ![c] = "sending"]
    /\ UNCHANGED <<cIface, cHandle, reply, slot, fills, sent, ifaceLock, chanVars, dispVars,
                   reqVars, closeVars>>
    /\ UNCHANGED <<hostVars, backVars, logicVars, pollVars, loadVars>>

\* the loop takes and dispatches an Action of an earlier call: next() yields
\* it, activate() runs to its end
DrainBacklog ==
    /\ rxAlive["FileChooser"]
    /\ fcBacklog > 0
    /\ HostIdle("FileChooser")
    /\ fcBacklog' = fcBacklog - 1
    /\ fcWait' = FALSE
    /\ UNCHANGED <<callVars, lockVars, chanVars, dispVars, reqVars, closeVars, hostMode,
                   backVars, logicVars, pollVars>>

\* the backend some time after start: Actions of earlier FileChooser calls
\* may be queued, the host has not polled them yet
SendInit ==
    /\ DispatchIdle
    /\ fcBacklog \in Backlogs
    /\ hostMode \in HostModes
    /\ BackendRunning
    /\ LogicIdle

SendNext ==
    \/ \E c \in Calls, h \in Handles : FCLockSender(c, h)
    \/ \E c \in Calls, h \in Handles : FCLockWait(c, h)
    \/ \E c \in Calls : FCLockGranted(c)
    \/ \E c \in Calls : FCSend(c)
    \/ \E c \in Calls : CallReturn(c)
    \/ \E c \in Calls : CallPanic(c)
    \/ FCNextWait
    \/ FCNext
    \/ DrainBacklog
    \/ \E c \in Calls, ok \in BOOLEAN : FCActivate(c, ok)
    \/ \E c \in Calls, kind \in ResponseKinds \cup {"Value"} : BusinessDone(c, kind)

SendSpec == SendInit /\ [][SendNext]_vars

\* the loop keeps polling and a released Mutex is handed to a waiting task
SendLoop ==
    /\ WF_vars(FCNext)
    /\ WF_vars(DrainBacklog)
    /\ WF_vars(\E c \in Calls, ok \in BOOLEAN : FCActivate(c, ok))
    /\ WF_vars(\E c \in Calls : FCLockGranted(c))

SendFairSpec == SendSpec /\ Progress /\ SendLoop

\* ================================================================ claims
Answered(c) == dpc[c] \in {"closing", "returned"}
Processed(c) == dpc[c] \in {"closing", "returned", "failed"}
OwnHandles == \A c, d \in Calls : c # d => cHandle[c] # cHandle[d]
Delivered == {c \in Calls : IsFilled(slot[c])}

\* C1 (as stated): once the dispatch loop has processed all N calls of an
\* interface, each with its own handle, N responses have been delivered, one
\* per call, each the Response the business logic returned for that call.
C1_AllCallsAnswered ==
    (OwnHandles /\ \A c \in Calls : Processed(c))
        => /\ Cardinality(Delivered) = MaxCalls
           /\ \A c \in Calls : slot[c] = result[c] /\ slot[c].token = c

\* C1 (amended): every processed call whose Request registration did not fail
\* has exactly one response delivered, the one the business logic returned
\* for its own Action, and the adapter hands back that very value; a call
\* whose registration failed has none.
C1_OwnResponseDelivered ==
    /\ \A c \in Calls :
         /\ Answered(c) => /\ IsFilled(slot[c])
                           /\ slot[c] = result[c]
                           /\ slot[c].token = c
         /\ cpc[c] = "returned" => Answered(c) /\ reply[c] = result[c]
         /\ dpc[c] = "failed" => ~IsFilled(slot[c]) /\ ~IsFilled(reply[c])
    /\ Cardinality(Delivered) = Cardinality({c \in Calls : Answered(c)})

\* C1 witness: two overlapping FileChooser calls with their own handles have
\* both returned, each with its own token
C1_Witness ==
    /\ OwnHandles
    /\ \A c \in Calls : /\ cIface[c] = "FileChooser"
                        /\ cpc[c] = "returned"
                        /\ reply[c].token = c
    /\ reply[1].kind # reply[2].kind

\* C2: a completion slot is never filled more than once, and once a dispatch
\* whose Request registration succeeded has returned it has been filled
\* exactly once.
C2_SlotFilledOnce ==
    \A c \in Calls :
        /\ fills[c] <= 1
        /\ dpc[c] = "returned" => fills[c] = 1

\* C2 witness: a cancellable dispatch registered its Request, returned, and
\* the slot was filled once
C2_Witness ==
    \E c \in Calls : dpc[c] = "returned" /\ regs[c] = 1 /\ fills[c] = 1

\* C3: an adapter never carries on with an Action that was not queued: a
\* call that waits for or has received its answer was enqueued, a queued
\* Action stays on the channel until the dispatcher takes it, and a failed
\* enqueue ends in the adapter's panic, with nothing handed back.
C3_NoSilentDrop ==
    \A c \in Calls :
        /\ cpc[c] \in {"await", "returned"} => sent[c] = "ok"
        /\ sent[c] = "err" => cpc[c] = "panicked" /\ ~IsFilled(reply[c])
        /\ (sent[c] = "ok" /\ rxAlive[cIface[c]] /\ dpc[c] = "none")
               => Cardinality({n \in 1..Len(chan[cIface[c]]) : chan[cIface[c]][n] = c}) = 1

\* C3 witness: an enqueue failed (the channel's Receiver was gone) and the
\* adapter panicked
C3_Witness ==
    \E c \in Calls : sent[c] = "err" /\ cpc[c] = "panicked" /\ ~rxAlive[cIface[c]]

CloseOver(k) == kpc[k] \in {"replied", "notfound", "panicked"}

\* C4: every Close call received on a registered Request path produces
\* exactly one reply: once the call is over its caller has one reply, be it
\* that the Close arrived during the primary operation or after it.
C4_OneReplyPerClose ==
    \A k \in Closes :
        (kTarget[k] # 0 /\ CloseOver(k)) => kReplies[k] = 1

\* C5: once a Close on a Request has completed, its path no longer resolves
\* to that Request, no other Close on the Request ever succeeds, and a Close
\* that finds nothing at the path is answered "not found", once.
C5_SecondCloseNotFound ==
    /\ \A k \in Closes :
         kpc[k] = "replied" => /\ objects[kHandle[k]] # kTarget[k]
                               /\ deregs[kTarget[k]] = 1
    /\ \A k, j \in Closes :
         (k # j /\ kpc[k] = "replied" /\ kTarget[j] = kTarget[k]) => kpc[j] # "replied"
    /\ \A k \in Closes :
         (kpc[k] # "idle" /\ kTarget[k] = 0) => kpc[k] = "notfound" /\ kReplies[k] = 1

\* C5 witness: a first Close succeeded and a second one on the same path was
\* answered "not found"
C5_Witness ==
    \E k, j \in Closes :
        /\ kpc[k] = "replied"
        /\ kpc[j] = "notfound"
        /\ kHandle[j] = kHandle[k]
        /\ k < j

\* C6: a Close is acknowledged only after the business close() of its
\* Request has finished.
C6_ReplyAfterBusinessClose ==
    \A k \in Closes :
        (kslot[k] = "sent" \/ kpc[k] = "replied")
            => kTarget[k] # 0 /\ closeEnds[kTarget[k]] >= 1

\* C6 witness: a Close was acknowledged
C6_Witness ==
    \E k \in Closes : kpc[k] = "replied" /\ closeEnds[kTarget[k]] = 1

\* the lifecycle state of the Request made for call c
ReqState(c) ==
    IF regs[c] = 0 THEN "None"
    ELSE IF objects[cHandle[c]] # c THEN "Closed"
    ELSE IF picked[c] # 0 THEN "Closing"
    ELSE "Registered"

ReqSteps ==
    {<<"None", "Registered">>, <<"Registered", "Closing">>, <<"Closing", "Closed">>}

\* C7: a Request only moves Registered -> Closing -> Closed: no step takes it
\* back or out of Closed or past Closing, and a Closed Request has had its
\* business close() run to the end.
C7_RequestLifecycle ==
    /\ [][\A c \in Calls :
            \/ ReqState(c)' = ReqState(c)
            \/ <<ReqState(c), ReqState(c)'>> \in ReqSteps]_vars
    /\ [](\A c \in Calls :
            ReqState(c) = "Closed" => closeRuns[c] = 1 /\ closeEnds[c] = 1)

\* C7 witness: a Request reached Closed
C7_Witness ==
    \E c \in Calls : ReqState(c) = "Closed" /\ dpc[c] = "returned"

\* a Request value exists (or existed) for call c: Request::new returned Ok
RequestMade(c) ==
    cIface[c] \in Cancellable /\ dpc[c] \in {"running", "closing", "returned"}

ClosesInside(c) == {k \in Closes : kTarget[k] = c /\ kpc[k] = "await"}

\* C8: every Request has its handle path registered exactly once and
\* deregistered at most once, and is never inside two Close calls at once.
C8_RegisteredOnce ==
    \A c \in Calls :
        /\ RequestMade(c) => regs[c] = 1
        /\ regs[c] <= 1
        /\ deregs[c] <= 1
        /\ Cardinality(ClosesInside(c)) <= 1

\* C9: a Close that is queued while the primary operation runs does not
\* interrupt it: the operation's own Response reaches the originating call,
\* the registration is removed only after the slot was filled, and it is
\* removed.
C9_CloseDuringOperation ==
    /\ [](\A c \in Calls : deregs[c] > 0 => IsFilled(slot[c]) /\ slot[c] = result[c])
    /\ \A k \in Closes :
         kInFlight[k] ~>
            (/\ kTarget[k] # 0
             /\ kpc[k] = "replied"
             /\ cpc[kTarget[k]] = "returned"
             /\ reply[kTarget[k]] = result[kTarget[k]]
             /\ objects[kHandle[k]] # kTarget[k])

\* C9 witness: a Close queued during the operation was acknowledged and the
\* call got its response
C9_Witness ==
    \E k \in Closes :
        /\ kInFlight[k]
        /\ kpc[k] = "replied"
        /\ cpc[kTarget[k]] = "returned"
        /\ objects[kHandle[k]] = 0

\* C10: a Request on which Close has been called is eventually no longer
\* registered, whenever the Close arrived.
C10_ClosedRequestDeregistered ==
    \A k \in Closes :
        (kTarget[k] # 0) ~> (kTarget[k] # 0 /\ objects[kHandle[k]] # kTarget[k])

\* A Request that its dispatcher has dropped while it is still registered,
\* with no Close waiting inside it, keeps its registration in every later
\* step: the leak that refutes the statement above does not depend on how
\* many more calls arrive.
LeakIsPermanent ==
    [][\A c \in Calls :
         (/\ regs[c] = 1
          /\ objects[cHandle[c]] = c
          /\ dpc[c] = "returned"
          /\ ClosesInside(c) = {})
            => objects'[cHandle[c]] = c]_vars

\* a poll of interface i's dispatcher is suspended waiting for an Action:
\* Account::next, Wallpaper::next and Settings::next use try_next and have no
\* such state; FileChooser::next has one
PollSuspended(i) == i = "FileChooser" /\ fcWait

\* C11: for every interface, a poll of the dispatch loop on an empty Action
\* Channel returns "none" at once: no poll is ever suspended until an Action
\* arrives.
C11_PollNeverSuspends ==
    \A i \in Ifaces : chan[i] = <<>> => ~PollSuspended(i)

\* the Actions of interface i that were dequeued and whose dispatch is not over
ActiveDispatches(i) ==
    {c \in Calls : cIface[c] = i /\ dpc[c] \in {"taken", "running", "closing"}}

\* C12 (as stated): within one interface at most one Action is being
\* dispatched at any time, for every way the host may call the interface's
\* poll/dispatch operations.
C12_OneDispatchAnyHost ==
    \A i \in Ifaces : Cardinality(ActiveDispatches(i)) <= 1

\* C12 (amended): when the host drives the interface from one loop that
\* awaits each poll/dispatch before it polls again, at most one Action of the
\* interface is being dispatched at any time.
C12_OneDispatchUnderLoop ==
    hostMode = "loop" => \A i \in Ifaces : Cardinality(ActiveDispatches(i)) <= 1

\* a looping host is in the middle of one dispatch while the interface's next
\* Action is already queued
C12_Witness ==
    /\ hostMode = "loop"
    /\ \E c, d \in Calls :
         /\ c # d /\ cIface[c] = cIface[d]
         /\ dpc[c] \in {"running", "closing"}
         /\ d \in Queued(cIface[c])

\* the dispatch of call c's Action got as far as Request::new: the business
\* operation was invoked, or the registration failed and it never will be
Begun(c) == dpc[c] \in {"running", "closing", "returned", "failed"}

PendingBesideBusy(c) ==
    /\ sent[c] = "ok"
    /\ dpc[c] = "none"
    /\ \E d \in Calls : /\ cIface[d] \notin {"none", cIface[c]}
                        /\ dpc[d] \in {"running", "failed"}

\* C14: a failing or slow dispatch on one interface never stops another
\* interface's dispatch loop: an Action pending on another interface while one
\* interface's business logic is running or has failed is still dequeued and
\* answered.
C14_OtherInterfacesServed ==
    \A c \in Calls : PendingBesideBusy(c) ~> Answered(c)

\* under the demo host an Action on the Settings or Wallpaper channel is
\* never dequeued, whatever the FileChooser dispatch does
DemoOthersNeverDequeued ==
    \A c \in Calls : cIface[c] \in {"Settings", "Wallpaper"} => dpc[c] = "none"

\* another call of the same interface had its dispatch fail
SiblingFailed(d) ==
    \E c \in Calls : c # d /\ cIface[c] = cIface[d] /\ dpc[c] = "failed"

\* the host has dropped the dispatcher of call d's interface
DispatcherGone(d) == \E i \in Ifaces : cIface[d] = i /\ ~rxAlive[i]

\* C15: a dispatch that fails for one call does not affect the sibling calls
\* of the same interface: a sibling that was answered keeps the response of
\* its own business operation, and a sibling still queued is dequeued and
\* dispatched in its turn (as long as the host keeps the dispatcher).
C15_SiblingsStillServed ==
    /\ [](\A d \in Calls :
            (SiblingFailed(d) /\ Answered(d)) =>
                /\ IsFilled(slot[d]) /\ slot[d] = result[d]
                /\ cpc[d] = "returned" => reply[d] = result[d])
    /\ \A d \in Calls :
         (SiblingFailed(d) /\ sent[d] = "ok" /\ dpc[d] = "none")
             ~> (Processed(d) \/ DispatcherGone(d))

\* the first call's dispatch failed at Request registration; the call
\* enqueued after it got the response of its own business operation
C15_Witness ==
    \E c, d \in Calls :
        /\ c < d /\ cIface[c] = cIface[d]
        /\ dpc[c] = "failed" /\ cpc[c] = "panicked"
        /\ Answered(d) /\ cpc[d] = "returned" /\ reply[d] = result[d]

\* C16: Backend construction that fails at session establishment or at
\* identity acquisition returns a structured error (no panic) and leaves no
\* interface registered and no identity held.
C16_ConstructionFailsCleanly ==
    bpc \notin {"Uninitialized", "Constructed"} =>
        /\ bpc = "Failed"
        /\ bErr \in {"session", "proxy", "name", "request"}
        /\ ifaceRegs = {}
        /\ busName # "backend"
        /\ holders = {}

\* a construction that ends with Err leaves nothing behind, and the session
\* step is the only one that does not end with Err
ConstructionErrLeavesNothing ==
    /\ bpc = "Failed" => ifaceRegs = {} /\ busName # "backend" /\ holders = {}
    /\ bpc = "Panicked" <=> bErr = "session"

\* C17: when the well-known identity is held by another process that does
\* not allow replacement (and the session itself could be established),
\* construction fails: no Backend value, no interface registered, no crash.
C17_HeldIdentityFailsConstruction ==
    (busName = "pinned" /\ bErr # "session") =>
        /\ bpc \in {"Uninitialized", "Failed"}
        /\ holders = {}
        /\ ifaceRegs = {}

\* C18: over the whole life of the process, counting every holder of the
\* Backend, a release of the well-known identity is issued at most once.
C18_ReleasedAtMostOnce == releases <= 1

\* C19: a failure while releasing the identity during teardown is only
\* logged: no drop of a Backend ever panics.
C19_TeardownNeverAborts == dropPanics = 0

\* C20: every outcome that an adapter of a cancellable operation hands back
\* to the transport layer is Response::Ok, Cancelled or Other, and no
\* adapter call of such an operation ends in an unstructured fault.
C20_StructuredOutcomes ==
    \A c \in Calls :
        cIface[c] \in Cancellable =>
            /\ cpc[c] # "panicked"
            /\ cpc[c] = "returned" => reply[c].kind \in ResponseKinds

\* what an adapter does hand back is always one of the three Response kinds
ReturnedIsResponse ==
    \A c \in Calls :
        (cIface[c] \in Cancellable /\ cpc[c] = "returned") => reply[c].kind \in ResponseKinds

\* C21: when Request registration fails during the dispatch of an Action,
\* the business operation is not invoked (it has no result and no Request of
\* its own), the completion slot is never filled with a Response, and the
\* dispatch reports the error (it ends "failed", which it never leaves).
C21_FailedRegistrationDropsAction ==
    /\ [](\A c \in Calls :
            dpc[c] = "failed" =>
                /\ cIface[c] \in Cancellable
                /\ result[c] = Empty
                /\ fills[c] = 0
                /\ ~IsFilled(slot[c]) /\ ~IsFilled(reply[c])
                /\ regs[c] = 0 /\ ~reqRx[c]
                /\ closeRuns[c] = 0)
    /\ [][\A c \in Calls : dpc[c] = "failed" => dpc'[c] = "failed"]_vars

\* a dispatch failed at registration and its Action was dropped unanswered
C21_Witness ==
    \E c \in Calls : dpc[c] = "failed" /\ sent[c] = "ok" /\ slot[c] = Dropped

ConflictAbsorbed(c) == RequestMade(c) /\ regs[c] = 0

\* sending on a channel whose Receiver is gone ends in a fault of the sender
ChannelFailuresAbort ==
    /\ \A c \in Calls : sent[c] = "err" => cpc[c] = "panicked" /\ dpc[c] = "none"
    /\ \A k \in Closes : (kslot[k] = "dropped" /\ kpc[k] # "await") => kpc[k] = "panicked"

\* C23: an internal plumbing failure is never silently absorbed: a
\* registration at an occupied path, and a send on or receive from a channel
\* whose other end is gone, end in a reported error or an abort, never in the
\* operation continuing as if it had succeeded.
C23_PlumbingFailuresAreLoud ==
    /\ \A c \in Calls : ~ConflictAbsorbed(c)
    /\ ChannelFailuresAbort

\* C24: for every window identifier, when the window resolver yields no native
\* window (no display, or a display of the other kind), the open-file dialog is
\* still shown, on a window of the default display and without a parent, and
\* the operation ends in a Response (the choices being ones whose handling is
\* defined: no choice with pairs).
C24_ResolverFailureIsNotFatal ==
    (dlg.stage # "none" /\ dlg.external = "None" /\ dlg.choices # "combo") =>
        /\ dlg.stage \in {"shown", "renaming", "done"}
        /\ dlg.parent = "none"
        /\ dlg.fakeDisplay = "default"
        /\ dlg.stage = "done" => dlg.resp.kind \in ResponseKinds

C24_Witness ==
    /\ dlg.stage = "done"
    /\ dlg.wid = "X11"
    /\ dlg.display = "Wayland"
    /\ dlg.external = "None"
    /\ dlg.parent = "none"
    /\ dlg.resp.kind = "Ok"

\* an OpenFile whose dialog was accepted with a file selected and the
\* "read-only" choice untouched, multiple and directory unset or false
AcceptedOpenFile ==
    /\ dlg.stage = "done"
    /\ dlg.op = "OpenFile"
    /\ dlg.multiple \in {"unset", "false"}
    /\ dlg.directory \in {"unset", "false"}
    /\ dlg.resp.kind = "Ok"
    /\ dlg.selection # {}
    /\ dlg.readOnly = "false"

\* C27: an OpenFile with multiple and directory unset or false, accepted with
\* a non-empty selection and the "read-only" choice at its initial value,
\* returns Response::Ok whose uris are exactly the selected files' URIs and
\* whose writable is Some(true).
C27_AcceptedSelectionReturned ==
    AcceptedOpenFile =>
        /\ dlg.resp.uris = [some |-> TRUE, list |-> dlg.selection]
        /\ dlg.resp.writable = [some |-> TRUE, val |-> TRUE]

\* what the accepted OpenFile does return: the selected URIs that parse, as
\* url::Url serialises them, and writable Some(true)
AcceptedSelectionParsed ==
    AcceptedOpenFile =>
        /\ dlg.resp.uris.list = {UrlParse(f) : f \in dlg.selection} \ {"invalid"}
        /\ dlg.resp.uris.some = (dlg.resp.uris.list # {})
        /\ dlg.resp.writable = [some |-> TRUE, val |-> TRUE]

\* the selected file is answered with no uris at all
SelectionDropped ==
    /\ AcceptedOpenFile
    /\ dlg.resp.uris = NoUris

\* log[j] is a Read of "picture-uri" that follows the SetWallpaperURI log[i],
\* which returned Ok, with no other SetWallpaperURI in between
ReadAfterSet(i, j) ==
    /\ i < j
    /\ log[i].op = "set"
    /\ log[i].out = "Ok"
    /\ log[j].op = "read"
    /\ log[j].arg = "picture-uri"
    /\ \A k \in (i + 1)..(j - 1) : log[k].op # "set"

\* C25: round trip: after SetWallpaperURI(app_id, window, u, {}) returned
\* Response::Ok, a Read of "picture-uri" returns u, for every URI u.
C25_ReadReturnsWhatWasSet ==
    \A i, j \in 1..Len(log) : ReadAfterSet(i, j) => log[j].out = log[i].arg

\* C25, amended: the Read returns u as url::Url serialises it
C25_ReadReturnsNormalisedUri ==
    \A i, j \in 1..Len(log) : ReadAfterSet(i, j) => log[j].out = UrlParse(log[i].arg)

C25_Witness ==
    \E i, j \in 1..Len(log) :
        /\ ReadAfterSet(i, j)
        /\ log[i].arg = "file:///tmp/../bg.png"
        /\ log[j].out = "file:///bg.png"

\* log[i] and log[j] are the same read operation (Read of one key, or ReadAll)
\* with no SetWallpaperURI between them
SameReadTwice(i, j) ==
    /\ i < j
    /\ log[i].op \in {"read", "readAll"}
    /\ log[j].op = log[i].op
    /\ log[j].arg = log[i].arg
    /\ \A k \in (i + 1)..(j - 1) : log[k].op # "set"

\* the step is the dispatch of a Read or a ReadAll
ReadDispatched ==
    /\ Len(log') = Len(log) + 1
    /\ log'[Len(log')].op \in {"read", "readAll"}

C28_EveryAcceptedCallDequeued ==
    \A c \in Calls : (sent[c] = "ok") ~> (dpc[c] # "none")

\* the part that holds: an accepted FileChooser call is eventually dequeued
DemoFileChooserDequeued ==
    \A c \in Calls : (sent[c] = "ok" /\ cIface[c] = "FileChooser") ~> (dpc[c] # "none")

\* a Wallpaper call sits accepted and undispatched while the loop has
\* nothing else to do
WallpaperLeftQueued ==
    \E c \in Calls :
        /\ cIface[c] = "Wallpaper"
        /\ sent[c] = "ok"
        /\ dpc[c] = "none"
        /\ \A d \in Calls : d # c => cIface[d] = "none"

\* the business operation of call c has been invoked
Invoked(c) == dpc[c] \in {"running", "closing", "returned"}

\* C29: the dispatch of a cancellable Action goes in this order: the Request is
\* registered at the Action's own handle path, then the business operation is
\* invoked, then the completion slot is filled with the Response it returned,
\* and only then is a Close serviced; business close() never runs before the
\* slot is filled.
C29_DispatchStepOrder ==
    \A c \in Calls : cIface[c] \in Cancellable =>
        /\ Invoked(c) => regs[c] > 0
        /\ IsFilled(slot[c]) => Invoked(c) /\ dpc[c] # "running" /\ slot[c] = result[c]
        /\ closeRuns[c] > 0 => IsFilled(slot[c])

\* the order that holds whatever the handle: Request::new has returned Ok
\* before the business operation is invoked (registered or not), the slot is
\* filled with the business result after it, close() runs after the fill
DispatchOrderSaveRegistration ==
    \A c \in Calls : cIface[c] \in Cancellable =>
        /\ dpc[c] = "running" => reqRx[c]
        /\ IsFilled(slot[c]) => Invoked(c) /\ dpc[c] # "running" /\ slot[c] = result[c]
        /\ closeRuns[c] > 0 => IsFilled(slot[c])
        /\ (Invoked(c) /\ regs[c] = 0) =>
              \E d \in Calls : d # c /\ cHandle[d] = cHandle[c] /\ regs[d] > 0

\* the business operation runs for a call whose Request was never registered
InvokedUnregistered ==
    \E c \in Calls : cIface[c] \in Cancellable /\ dpc[c] = "running" /\ regs[c] = 0

\* thread p holds the exclusive access to the receive end it polls
Holding(p) == ppc[p].at \in {"inside", "took"}

\* C30: access to an Action Channel's receive end is mutually exclusive and
\* scoped to one poll: whatever the interleaving of concurrent polls of one
\* interface, at most one poller is inside the receive end at a time, and a
\* poll no longer holds the access when the business operation of the Action
\* it took is running.
C30_ReceiveEndExclusive ==
    /\ \A i \in Ifaces : Cardinality(Inside(i)) <= 1
    /\ \A p \in Pollers :
         (Holding(p) /\ ppc[p].act # 0) => dpc[ppc[p].act] = "taken"

\* what holds: the FileChooser Mutex admits one poller at a time, and on every
\* interface the access a poll took is given up before the Action it yielded
\* is dispatched
MutexReceiveEndExclusive ==
    /\ Cardinality(Inside("FileChooser")) <= 1
    /\ \A p \in Pollers :
         (Holding(p) /\ ppc[p].act # 0) => dpc[ppc[p].act] = "taken"
    /\ \A c \in Calls :
         dpc[c] \in {"running", "failed"} => \A p \in Pollers : ppc[p].act # c

\* two threads are inside the receive end of one RefCell dispatcher
TwoPollersInside == \E i \in NextIfaces : Cardinality(Inside(i)) = 2

\* how often call c's Action sits in the FileChooser channel
Occurrences(c) ==
    Cardinality({n \in 1..Len(chan["FileChooser"]) : chan["FileChooser"][n] = c})

\* a FileChooser adapter call is suspended on the sender Mutex or, holding
\* it, on channel space
WaitingToSend(c) == cpc[c] \in {"lockwait", "sending"}

\* C31: for any interleaving of concurrent FileChooser adapter calls each
\* call's Action is pushed onto the channel exactly once (in the channel once
\* until it is dequeued, never again after), and the pushes do not deadlock
\* with the dispatch loop: while the loop keeps polling, every adapter that
\* waits for the sender lock or for channel space eventually enqueues.
C31_PushedOnceAndNoDeadlock ==
    /\ [](\A c \in Calls :
            /\ sent[c] = "ok" => \/ Occurrences(c) = 1 /\ dpc[c] = "none"
                                 \/ Occurrences(c) = 0 /\ dpc[c] # "none"
            /\ sent[c] # "ok" => Occurrences(c) = 0 /\ dpc[c] = "none")
    /\ \A c \in Calls : WaitingToSend(c) ~> (sent[c] = "ok")

\* both calls got their Action in behind a backlog that filled the channel
C31_Witness ==
    /\ fcBacklog = ChanBuffer - 1
    /\ Len(chan["FileChooser"]) = 2
    /\ Pending("FileChooser") = Capacity
    /\ \A c \in Calls : sent[c] = "ok"

\* one adapter waits for channel space while the other waits for the lock
SendersQueueUp ==
    \E c, d \in Calls :
        /\ cpc[c] = "sending" /\ ~HasRoom("FileChooser")
        /\ cpc[d] = "lockwait"

\* C32: one poll of a dispatch loop removes at most one Action from the Action
\* Channel, whatever the number queued: over any step that leaves the
\* dispatcher in place the number of pending Actions of an interface goes down
\* by at most one, and the Action that left is the one at the head.
C32_PollTakesAtMostOne ==
    [][\A i \in Ifaces :
          rxAlive'[i] =>
             /\ Len(chan'[i]) >= Len(chan[i]) - 1
             /\ Len(chan'[i]) < Len(chan[i]) => chan'[i] = Tail(chan[i])]_vars

\* a poll took one Action and left the other one queued
C32_Witness ==
    \E c, d \in Calls :
        /\ c # d
        /\ dpc[c] = "taken"
        /\ dpc[d] = "none"
        /\ chan[cIface[c]] = <<d>>

\* how often call c's Action sits in any channel
Queued_times(c) ==
    Cardinality({<<i, n>> \in Ifaces \X (1..Capacity) : n <= Len(chan[i]) /\ chan[i][n] = c})

\* C33: the Action Channel is bounded and carries one message per remote call:
\* in every reachable state the Actions pending on an interface's channel do
\* not exceed its capacity (buffer of 10 plus one slot for the one Sender), and
\* no call has more than one Action in the channels, none once it was dequeued.
C33_ChannelBounded ==
    /\ \A i \in Ifaces : Pending(i) <= Capacity /\ Len(chan[i]) <= Capacity
    /\ \A c \in Calls :
         /\ Queued_times(c) <= 1
         /\ dpc[c] # "none" => Queued_times(c) = 0
         /\ Queued_times(c) = 1 => sent[c] = "ok" /\ chan[cIface[c]] # <<>>

\* the channel is full and an adapter holding its Action waits for room
C33_Witness ==
    /\ Pending("FileChooser") = Capacity
    /\ \E c \in Calls : cpc[c] = "sending" /\ Queued_times(c) = 0
    /\ \E d \in Calls : Queued_times(d) = 1

\* the step is part of the dispatch of Settings call c
SettingsDispatched(c) == cIface[c] = "Settings" /\ dpc'[c] # dpc[c]

\* C34: dispatching a Settings Read or ReadAll Action never creates or
\* registers a Request: the registered object paths are the same before and
\* after every step of the dispatch, no Request exists for the call, and the
\* only completion slot the dispatch fills is the Action's own.
C34_SettingsMakesNoRequest ==
    /\ [](\A c \in Calls : cIface[c] = "Settings" => regs[c] = 0 /\ ~reqRx[c])
    /\ [][\A c \in Calls :
            SettingsDispatched(c) =>
               /\ objects' = objects
               /\ regs' = regs
               /\ reqRx' = reqRx
               /\ \A d \in Calls : d # c => slot'[d] = slot[d] /\ fills'[d] = fills[d]
               /\ dpc'[c] = "returned" => IsFilled(slot'[c]) /\ fills'[c] = 1]_vars

\* a Settings call was dispatched and answered with nothing registered
C34_Witness ==
    \E c \in Calls :
        /\ cIface[c] = "Settings"
        /\ dpc[c] = "returned"
        /\ IsFilled(slot[c])
        /\ \A h \in Handles : objects[h] = 0

\* C35: only a serviced Close removes a Request's registration: the end of the
\* primary operation and the return of dispatch leave the handle path
\* registered, so a Request that was registered and on which no Close was
\* serviced is still registered, and a registration changes only in the step
\* in which a Close whose Action was serviced resumes.
C35_OnlyCloseDeregisters ==
    /\ [](\A c \in Calls :
            (regs[c] > 0 /\ \A k \in Closes : ~(kTarget[k] = c /\ kpc[k] = "replied"))
               => objects[cHandle[c]] = c)
    /\ [][\A h \in Handles :
            (objects[h] # 0 /\ objects'[h] # objects[h]) =>
               /\ objects'[h] = 0
               /\ \E k \in Closes : /\ kHandle[k] = h
                                    /\ kTarget[k] = objects[h]
                                    /\ kslot[k] = "sent"
                                    /\ kpc[k] = "await"
                                    /\ kpc'[k] = "replied"]_vars

\* dispatch returned, the caller has its Response, no Close was ever sent and
\* the Request is still registered
C35_Witness ==
    \E c \in Calls :
        /\ cIface[c] \in Cancellable
        /\ dpc[c] = "returned"
        /\ cpc[c] = "returned"
        /\ objects[cHandle[c]] = c
        /\ \A k \in Closes : kpc[k] = "idle"

\* C36: for each Request the business close() is invoked at most once, however
\* many Close calls are sent to its path and whenever they arrive: the Request
\* looks at its Close channel once, after the response of the primary
\* operation was sent.
C36_CloseInvokedAtMostOnce ==
    /\ [](\A c \in Calls :
            /\ closeRuns[c] <= 1
            /\ closeEnds[c] <= closeRuns[c]
            /\ closeRuns[c] > 0 => IsFilled(slot[c]))
    /\ [][\A c \in Calls : closeRuns'[c] # closeRuns[c] =>
            /\ dpc[c] = "running"
            /\ ~IsFilled(slot[c]) /\ IsFilled(slot'[c])]_vars

\* two Close calls were sent to one Request, close() ran once
C36_Witness ==
    \E c \in Calls, j, k \in Closes :
        /\ j # k
        /\ kTarget[j] = c /\ kTarget[k] = c
        /\ kpc[j] \in {"replied", "panicked"}
        /\ kpc[k] \in {"replied", "panicked"}
        /\ closeRuns[c] = 1
        /\ closeEnds[c] = 1


\* a dialog of any of the three operations has answered
DialogAnswered == dlg.stage = "done" /\ dlg.op \in {"OpenFile", "SaveFile", "SaveFiles"}

\* what the user had selected when the dialog was accepted: the files of
\* OpenFile and SaveFile, the folder of SaveFiles
EmptySelection ==
    IF dlg.op = "SaveFiles" THEN dlg.folder = "none" ELSE dlg.selection = {}

\* C37: every file chooser dialog maps its result to the Response: accepted
\* gives Ok, cancelled gives Cancelled, every other result gives Other, and an
\* accepted dialog with an empty selection gives Ok with uris absent.
C37_ResultMapsToResponse ==
    DialogAnswered =>
        /\ dlg.result = "Ok" => dlg.resp.kind = "Ok"
        /\ dlg.result = "Cancel" => dlg.resp.kind = "Cancelled"
        /\ dlg.result \notin {"Ok", "Cancel"} => dlg.resp.kind = "Other"
        /\ (dlg.result = "Ok" /\ EmptySelection) => dlg.resp.uris = NoUris

\* an accepted SaveFiles that was asked for file names and could not name
\* them: no folder was chosen, or a file's URI was not accepted by the parser
SaveFilesGaveUp ==
    /\ dlg.op = "SaveFiles"
    /\ dlg.files.some
    /\ \/ dlg.folder = "none"
       \/ dlg.files.list # <<>> /\ ~UriParses(dlg.folder)

\* C37, amended: as stated, except that an accepted SaveFiles that was asked
\* for file names answers Other when no folder is chosen or when the URI of a
\* file to return does not parse.
C37_ResultMapsToResponseUnlessGaveUp ==
    DialogAnswered =>
        /\ dlg.result = "Ok" => dlg.resp.kind = (IF SaveFilesGaveUp THEN "Other" ELSE "Ok")
        /\ dlg.result = "Cancel" => dlg.resp.kind = "Cancelled"
        /\ dlg.result \notin {"Ok", "Cancel"} => dlg.resp.kind = "Other"
        /\ (dlg.result = "Ok" /\ EmptySelection) => dlg.resp.uris = NoUris

\* an accepted SaveFiles with a chosen folder answered Other
C37_Witness ==
    /\ DialogAnswered
    /\ dlg.op = "SaveFiles"
    /\ dlg.result = "Ok"
    /\ dlg.folder # "none"
    /\ dlg.resp.kind = "Other"


\* an accepted SaveFiles that was asked for file names, with a folder chosen
AcceptedSaveFiles ==
    /\ dlg.stage = "done"
    /\ dlg.op = "SaveFiles"
    /\ dlg.result = "Ok"
    /\ dlg.files.some
    /\ dlg.files.list # <<>>
    /\ dlg.folder # "none"

\* one uri per requested name, in request order, none naming a file the
\* folder held, and a name the folder did not hold returned as it was
OneUriPerName ==
    /\ dlg.resp.kind = "Ok"
    /\ dlg.resp.uris = [some |-> TRUE, list |-> {dlg.uris[n] : n \in 1..Len(dlg.uris)}]
    /\ Len(dlg.uris) = Len(dlg.files.list)
    /\ \A n \in 1..Len(dlg.uris) :
          /\ dlg.uris[n].folder = UrlParse(dlg.folder)
          /\ dlg.uris[n].name \notin dlg.dir
          /\ dlg.uris[n].name[1].s = dlg.files.list[n][1].s
          /\ dlg.files.list[n] \notin dlg.dir => dlg.uris[n].name = dlg.files.list[n]

\* C38: an accepted SaveFiles with requested names in a folder holding
\* finitely many files returns exactly one URI per requested name, in request
\* order, each naming a file the folder did not hold, a name the folder does
\* not hold being returned unchanged.
C38_OneUriPerRequestedName == AcceptedSaveFiles => OneUriPerName

\* the same for a folder whose URI the parser accepts
OneUriPerNameWhenUriParses == (AcceptedSaveFiles /\ UriParses(dlg.folder)) => OneUriPerName

\* the renaming loop ends for every requested name
RenamingTerminates == (dlg.stage = "renaming") ~> (dlg.stage = "done")

\* an accepted SaveFiles in a folder of a GIO mount answered Other, no URI given
SaveFilesNamedNothing ==
    /\ AcceptedSaveFiles
    /\ ~UriParses(dlg.folder)
    /\ dlg.resp = [NoResp EXCEPT !.kind = "Other"]

\* a requested name was renamed twice before it was returned
RenamedTwice ==
    /\ AcceptedSaveFiles
    /\ dlg.resp.kind = "Ok"
    /\ \E n \in 1..Len(dlg.uris) : Len(dlg.uris[n].name[1].ids) = 2


\* the byte array ends with a NUL byte and holds no other
SingleFinalNul(bytes) ==
    /\ Len(bytes) >= 1
    /\ bytes[Len(bytes)] = 0
    /\ \A n \in 1..(Len(bytes) - 1) : bytes[n] # 0

\* C39: deserializing a FileName succeeds exactly when the byte array ends
\* with a single NUL byte and holds no other NUL; every other byte array is
\* rejected with a deserialization error and yields no FileName.
C39_FileNameNeedsSingleFinalNul ==
    wire.stage = "done" =>
        /\ wire.ok <=> SingleFinalNul(wire.bytes)
        /\ wire.ok => wire.err = "none" /\ wire.name \o <<0>> = wire.bytes
        /\ ~wire.ok => wire.err # "none" /\ wire.name = <<>>

\* a NUL-terminated byte array with a NUL inside was rejected
C39_Witness ==
    /\ wire.stage = "done"
    /\ ~wire.ok
    /\ Len(wire.bytes) >= 2
    /\ wire.bytes[Len(wire.bytes)] = 0
    /\ \E n \in 1..(Len(wire.bytes) - 1) : wire.bytes[n] = 0

\* a file name of two bytes was accepted
FileNameAccepted == wire.stage = "done" /\ wire.ok /\ Len(wire.name) = 2

====
